---- MODULE Spec2Model ----
(***************************************************************************)
(* gitport: the user registry (pkg/auth), its persistence and file watcher *)
(* (pkg/logger), the Git access hook (pkg/server) and the admin gate of    *)
(* the SSH TUI (pkg/tui), as one state machine.                            *)
(*                                                                         *)
(* Every goroutine is a process with a program counter; one action is one  *)
(* access to shared state (the registry map, the config, a lock, the file  *)
(* system, the watch set) together with the local code that follows it up  *)
(* to the next shared access.                                              *)
(***************************************************************************)
EXTENDS Naturals, Sequences, FiniteSets, TLC

(* ------------------------------ bounds -------------------------------- *)

\* Connection goroutines that can be alive at the same time.
NumConns == 2

\* fsnotify events that can be queued for the watcher goroutine.
MaxEvents == 2

(* ------------------------------ inputs -------------------------------- *)

Conns == 1..NumConns

\* The watcher goroutine, as a holder of dataMu.
WatcherProc == NumConns + 1

\* ssh.PublicKey values: Type() and Marshal() (the wire bytes).
Key1 == [type |-> "ssh-ed25519", blob |-> <<1>>]
Key2 == [type |-> "ssh-rsa", blob |-> <<2, 200>>]
Keys == {Key1, Key2}

\* sess.PublicKey() == nil
NilKey == [type |-> "", blob |-> <<>>]

ClaimedUsers == {"alice", "bob"}
RemoteAddrs == {"10.0.0.5:50412"}

\* Permission strings a users.json or config.json may hold.
PermStrings == {"", "none", "read", "write", "admin", "root"}

\* The repository the server is bound to (Hook.repoName), and another one.
RepoName == "project.git"
Repos == {RepoName, "other.git"}

(* ---------------------------- fingerprints ---------------------------- *)

B64Chars ==
    << "A","B","C","D","E","F","G","H","I","J","K","L","M","N","O","P",
       "Q","R","S","T","U","V","W","X","Y","Z","a","b","c","d","e","f",
       "g","h","i","j","k","l","m","n","o","p","q","r","s","t","u","v",
       "w","x","y","z","0","1","2","3","4","5","6","7","8","9","+","/" >>

B64(n) == B64Chars[n + 1]

\* base64.StdEncoding.EncodeToString over a byte sequence.
RECURSIVE Base64(_)
Base64(b) ==
    IF Len(b) = 0 THEN ""
    ELSE IF Len(b) = 1 THEN
        B64(b[1] \div 4) \o B64((b[1] % 4) * 16) \o "=="
    ELSE IF Len(b) = 2 THEN
        B64(b[1] \div 4) \o B64((b[1] % 4) * 16 + b[2] \div 16)
            \o B64((b[2] % 16) * 4) \o "="
    ELSE
        B64(b[1] \div 4) \o B64((b[1] % 4) * 16 + b[2] \div 16)
            \o B64((b[2] % 16) * 4 + b[3] \div 64) \o B64(b[3] % 64)
            \o Base64(SubSeq(b, 4, Len(b)))

\* userKey := key.Type() + " " + base64(key.Marshal())
UserKey(key) == key.type \o " " \o Base64(key.blob)

\* The fingerprints of Keys in byte order: encoding/json writes a map's keys sorted.
SortedUserKeys == << UserKey(Key1), UserKey(Key2) >>

(* ------------------------------ registry ------------------------------ *)

\* type User struct { Name, Perm }
User(name, perm) == [name |-> name, perm |-> perm]

EmptyMap == [k \in {} |-> User("", "")]

\* Data[userKey] = user
MapSet(m, k, u) == [x \in (DOMAIN m) \cup {k} |-> IF x = k THEN u ELSE m[x]]

(* --------------------------- files and JSON --------------------------- *)

\* A file of the server-state directory: absent, empty (just truncated), or a
\* JSON object, held as the sequence of its members in file order.
AbsentFile == [kind |-> "absent", members |-> << >>]
EmptyFile == [kind |-> "empty", members |-> << >>]
ObjectFile(members) == [kind |-> "object", members |-> members]

\* A file that holds the JSON literal null.
NullFile == [kind |-> "null", members |-> << >>]

RECURSIVE MarshalFrom(_, _)
MarshalFrom(m, keys) ==
    IF keys = << >> THEN << >>
    ELSE IF Head(keys) \in DOMAIN m
         THEN << [key |-> Head(keys), name |-> m[Head(keys)].name,
                  perm |-> m[Head(keys)].perm] >> \o MarshalFrom(m, Tail(keys))
         ELSE MarshalFrom(m, Tail(keys))

\* encoder.Encode(Data): one member per map entry, keys sorted.
MarshalUsers(m) == ObjectFile(MarshalFrom(m, SortedUserKeys))

RECURSIVE UnmarshalMembers(_, _)
UnmarshalMembers(members, acc) ==
    IF members = << >> THEN acc
    ELSE UnmarshalMembers(Tail(members),
            MapSet(acc, Head(members).key,
                   User(Head(members).name, Head(members).perm)))

\* json.Unmarshal(bytes, &newData): an error on an empty file, else the map of
\* the members (a repeated key keeps its last member).  The literal null is
\* no error: it sets newData to the nil map, which reads as an empty map.
UnmarshalUsers(file) ==
    IF file.kind = "object"
    THEN [err |-> FALSE, map |-> UnmarshalMembers(file.members, EmptyMap),
          nil |-> FALSE]
    ELSE IF file.kind = "null"
    THEN [err |-> FALSE, map |-> EmptyMap, nil |-> TRUE]
    ELSE [err |-> TRUE, map |-> EmptyMap, nil |-> FALSE]

\* type ConfigData struct { Public bool; DefaultPerm string }
ConfigData(public, perm) == [Public |-> public, DefaultPerm |-> perm]

\* The zero value of ConfigData: what logger.Config holds until it is set.
ZeroConfig == ConfigData(FALSE, "")

\* A JSON string and a JSON boolean as they stand in the file.
Quote(str) == "\"" \o str \o "\""
JSONBool(b) == IF b THEN "true" ELSE "false"

\* encoder.Encode(newConfig): the fields in struct order under their json names.
MarshalConfig(cfg) ==
    ObjectFile(<< [key |-> "public", val |-> JSONBool(cfg.Public)],
                  [key |-> "default_perm", val |-> Quote(cfg.DefaultPerm)] >>)

\* json.NewDecoder(file).Decode(&newConfig) fills a zero ConfigData: a member
\* it knows sets its field (the last one wins), any other member is skipped,
\* a member of the wrong type is an error.
RECURSIVE DecodeMembers(_, _)
DecodeMembers(members, acc) ==
    IF members = << >> THEN [err |-> FALSE, cfg |-> acc]
    ELSE LET m == Head(members)
         IN  IF m.key = "public"
             THEN IF m.val \in {"true", "false"}
                  THEN DecodeMembers(Tail(members),
                                     [acc EXCEPT !.Public = (m.val = "true")])
                  ELSE [err |-> TRUE, cfg |-> acc]
             ELSE IF m.key = "default_perm"
             THEN IF \E p \in PermStrings : Quote(p) = m.val
                  THEN DecodeMembers(Tail(members),
                           [acc EXCEPT !.DefaultPerm =
                               CHOOSE p \in PermStrings : Quote(p) = m.val])
                  ELSE [err |-> TRUE, cfg |-> acc]
             ELSE DecodeMembers(Tail(members), acc)

UnmarshalConfig(file) ==
    IF file.kind = "object"
    THEN DecodeMembers(file.members, ZeroConfig)
    ELSE [err |-> TRUE, cfg |-> ZeroConfig]

(* ------------------------- the host's key files ----------------------- *)

\* A public key file that os.ReadFile cannot read, and one it reads as the
\* given text, held as its words and the white space between them.
Unreadable == [readable |-> FALSE, text |-> << >>]
KeyFile(text) == [readable |-> TRUE, text |-> text]

\* ssh-keygen writes "<type> <base64 of the wire bytes> <comment>\n".
PubFileOf(key) ==
    KeyFile(<< key.type, " ", Base64(key.blob), " ", "host@laptop", "\n" >>)

\* What EnsureHostAdmin finds on the host: whether os.UserHomeDir succeeds, and
\* the three key files in the order of keyPaths.
HostKeys(home, files) == [home |-> home, files |-> files]

\* No key file of the host can be read.
NoHostKeys == HostKeys(TRUE, << Unreadable, Unreadable, Unreadable >>)

\* The command line when the model does not look at it.
NoCommand == [args |-> << >>, out |-> "none", port |-> ""]

\* What server.Init and server.Start find on disk: whether the working
\* directory holds .git, whether os.UserConfigDir succeeds, whether the bare
\* repository <config dir>/gitport/<name>.git exists and whether the directory
\* .gitport inside it does.
Setup(git, configDir, bare, gitport) ==
    [git |-> git, configDir |-> configDir, bare |-> bare, gitport |-> gitport]

\* A repository that `gitport init` has set up.
Initialized == Setup(TRUE, TRUE, TRUE, TRUE)

\* No remove or rename event for users.json waits on fileWatcher.Events and
\* no goroutine of tryReAddToWatcher is asleep.
NoRewatch == [removed |-> FALSE, retries |-> 0]

\* The main goroutine once startGitPortServer listens.
Serving == [pc |-> "serving", err |-> "", key |-> "", shutdown |-> FALSE]

(* ------------------------------- state -------------------------------- *)

VARIABLES
    Data,       \* auth.Data: the in-memory registry, userKey -> User
    dataMu,     \* auth.dataMu: [writer: set of holders, readers: set of holders]
    Config,     \* logger.Config: [Public, DefaultPerm]
    usersFile,  \* users.json in the server-state directory
    watched,    \* the paths in fileWatcher's watch set
    events,     \* write events for users.json queued on fileWatcher.Events
    diskOK,     \* whether os.Create and a write in the state directory succeed
    crashed,    \* the process died on a Go runtime fatal error
    conn,       \* per connection goroutine: program counter and locals
    watcher,    \* the watchFiles goroutine: program counter and locals
    main,       \* the main goroutine (server.Start): program counter and error
    hostKeys,   \* the home directory and ~/.ssh/id_{ed25519,rsa,ecdsa}.pub
    cli,        \* the command line: os.Args and what main made of it
    setup,      \* the working directory and the server-state directory on disk
    rewatch,    \* users.json removed or renamed: the event and the attempt to watch it again
    dataNil,    \* auth.Data is the nil map (it reads as an empty map)
    confFile,   \* config.json in the server-state directory
    confEvents, \* write events for config.json queued on fileWatcher.Events
    console     \* per connection: the admin console's command in progress

\* What startup reads, with the state of the watch recovery and whether the
\* registry is the nil map, and what the configuration file adds to the state.
bootVars == << hostKeys, cli, setup, rewatch >>
hostVars == << bootVars, dataNil >>
startupVars == << main, hostVars >>
configVars == << confFile, confEvents, console >>

vars == << Data, dataMu, Config, usersFile, watched, events, diskOK, crashed,
           conn, watcher, main, hostKeys, cli, setup, rewatch, dataNil, confFile,
           confEvents,
           console >>

Users == "users.json"
Conf == "config.json"

\* What a session asks for: no command (an interactive login) or a Git service.
Commands == {"", "git-upload-pack"}

IdleConn ==
    [pc |-> "idle", key |-> NilKey, user |-> "", addr |-> "", userKey |-> "",
     exist |-> FALSE, perms |-> "", err |-> FALSE, result |-> FALSE,
     cmd |-> "", repo |-> "", found |-> FALSE, perm |-> "",
     access |-> "", tui |-> FALSE, next |-> FALSE]

IdleWatcher ==
    [pc |-> "idle", newData |-> EmptyMap, nil |-> FALSE, newConfig |-> ZeroConfig]

\* An admin console showing its menu.
IdleConsole == [pc |-> "menu", cmd |-> "", newConfig |-> ZeroConfig]

\* Registries a server can hold when it starts serving: no users.json at all, or
\* a users.json with one identity of any permission string.
InitRegistries ==
    {EmptyMap} \cup
    { MapSet(EmptyMap, UserKey(Key1), User("host (admin)", p)) : p \in PermStrings }

\* The state when the server starts serving: the registry is what InitUsers
\* loaded (users.json is watched if it exists), config.json holds the
\* configuration and is watched, nothing is in flight.
InitWith(registries, configs) ==
    /\ Data \in registries
    /\ dataMu = [writer |-> {}, readers |-> {}]
    /\ Config \in configs
    /\ \/ /\ Data = EmptyMap
          /\ usersFile = AbsentFile
          /\ watched = {Conf}
       \/ /\ usersFile = MarshalUsers(Data)
          /\ watched = {Users, Conf}
    /\ events = 0
    /\ diskOK = TRUE
    /\ crashed = FALSE
    /\ conn = [c \in Conns |-> IdleConn]
    /\ watcher = IdleWatcher
    /\ main = Serving
    /\ hostKeys = NoHostKeys
    /\ cli = NoCommand
    /\ setup = Initialized
    /\ rewatch = NoRewatch
    /\ dataNil = FALSE
    /\ confFile = MarshalConfig(Config)
    /\ confEvents = 0
    /\ console = [c \in Conns |-> IdleConsole]

\* A server with no identity yet or with the host as admin, private or public
\* with guests admitted as readers.
Init ==
    InitWith({EmptyMap, MapSet(EmptyMap, UserKey(Key1), User("host (admin)", "admin"))},
             [Public : BOOLEAN, DefaultPerm : {"read"}])

\* Every registry of InitRegistries under every configuration.
InitSeq ==
    InitWith(InitRegistries, [Public : BOOLEAN, DefaultPerm : PermStrings])

(* ------------------------------ helpers ------------------------------- *)

SetConn(c, fields) ==
    conn' = [conn EXCEPT ![c] = [f \in DOMAIN conn[c] |->
                IF f \in DOMAIN fields THEN fields[f] ELSE conn[c][f]]]

\* A write to users.json (a truncate or a write) queues one event if the path is
\* in the watch set; the queue holds at most MaxEvents (inotify merges an event
\* equal to the last one queued).
\* Start has returned through its deferred logger.CloseFileWatcher():
\* fileWatcher.Close() has closed the watcher and its channels.
WatcherClosed == main.pc = "stopped"

\* A watcher on which Add still works after Close.
WatcherAdd_AfterClose(path) == watched \cup {path}

\* fileWatcher.Add(path): the watch set with the path; on a closed watcher Add
\* returns an error and adds nothing.
WatcherAdd(path) == IF WatcherClosed THEN watched ELSE watched \cup {path}

Notify(n) == IF Users \in watched /\ n < MaxEvents THEN n + 1 ELSE n

\* A connection goroutine is inside `Data[userKey] = User{...}`: it holds the
\* write lock of dataMu and all readers have left.
MapWriteInProgress(c) ==
    /\ dataMu.writer \subseteq Conns
    /\ dataMu.writer # {}
    /\ dataMu.writer # {c}
    /\ dataMu.readers = {}

(* ---------------------------- AuthHandler ----------------------------- *)

\* A lookup that admits a known key only if its permission is not "none".
AuthHandler_Lookup_PermGate(c, key, user, addr) ==
    /\ ~crashed
    /\ UNCHANGED << startupVars, configVars >>
    /\ main.pc = "serving"
    /\ conn[c].pc = "idle"
    /\ LET userKey == UserKey(key)
           exist == userKey \in DOMAIN Data
       IN  IF exist
           THEN SetConn(c, [pc |-> "done", key |-> key, user |-> user,
                            addr |-> addr, userKey |-> userKey, exist |-> TRUE,
                            result |-> Data[userKey].perm # "none"])
           ELSE SetConn(c, [pc |-> "checkPublic", key |-> key, user |-> user,
                            addr |-> addr, userKey |-> userKey, exist |-> FALSE])
    /\ UNCHANGED << Data, dataMu, Config, usersFile, watched, events, diskOK,
                    crashed, watcher >>

\* The SSH server calls AuthHandler(ctx, key) for a connection that offers the
\* public key `key`, claims the user name `user` and comes from `addr`.
\* user, exist := Data[userKey], read without dataMu.  A read that overlaps
\* another goroutine's map assignment is a data race: the Go runtime either
\* lets it through or stops the process ("concurrent map read and map write").
AuthHandler_Lookup(c, key, user, addr) ==
    /\ ~crashed
    /\ UNCHANGED << startupVars, configVars >>
    /\ main.pc = "serving"
    /\ conn[c].pc = "idle"
    /\ \/ /\ LET userKey == UserKey(key)
                 exist == userKey \in DOMAIN Data
             IN  IF exist
                 THEN SetConn(c, [pc |-> "done", key |-> key, user |-> user,
                                  addr |-> addr, userKey |-> userKey,
                                  exist |-> TRUE, result |-> TRUE])
                 ELSE SetConn(c, [pc |-> "checkPublic", key |-> key,
                                  user |-> user, addr |-> addr,
                                  userKey |-> userKey, exist |-> FALSE])
          /\ UNCHANGED crashed
       \/ /\ MapWriteInProgress(c)
          /\ crashed' = TRUE
          /\ UNCHANGED conn
    /\ UNCHANGED << Data, dataMu, Config, usersFile, watched, events, diskOK,
                    watcher >>

\* A gate that ignores `public`: every unknown key goes on to registration.
AuthHandler_CheckPublic_Open(c) ==
    /\ ~crashed
    /\ UNCHANGED << startupVars, configVars >>
    /\ conn[c].pc = "checkPublic"
    /\ SetConn(c, [pc |-> "getPerm"])
    /\ UNCHANGED << Data, dataMu, Config, usersFile, watched, events, diskOK,
                    crashed, watcher >>

\* A gate that decides with the `public` of config.json instead of the one
\* in memory.
AuthHandler_CheckPublic_FromFile(c) ==
    /\ ~crashed
    /\ UNCHANGED << startupVars, configVars >>
    /\ conn[c].pc = "checkPublic"
    /\ IF ~UnmarshalConfig(confFile).cfg.Public
       THEN SetConn(c, [pc |-> "done", result |-> FALSE])
       ELSE SetConn(c, [pc |-> "getPerm"])
    /\ UNCHANGED << Data, dataMu, Config, usersFile, watched, events, diskOK,
                    crashed, watcher >>

\* if !logger.GetConfigPublic() { return false }
AuthHandler_CheckPublic(c) ==
    /\ ~crashed
    /\ UNCHANGED << startupVars, configVars >>
    /\ conn[c].pc = "checkPublic"
    /\ IF ~Config.Public
       THEN SetConn(c, [pc |-> "done", result |-> FALSE])
       ELSE SetConn(c, [pc |-> "getPerm"])
    /\ UNCHANGED << Data, dataMu, Config, usersFile, watched, events, diskOK,
                    crashed, watcher >>

\* A registration that takes default_perm as it is, empty or not.
AuthHandler_GetDefaultPerm_AsIs(c) ==
    /\ ~crashed
    /\ UNCHANGED << startupVars, configVars >>
    /\ conn[c].pc = "getPerm"
    /\ SetConn(c, [pc |-> "lock", perms |-> Config.DefaultPerm])
    /\ UNCHANGED << Data, dataMu, Config, usersFile, watched, events, diskOK,
                    crashed, watcher >>

\* perms := logger.GetConfigDefaultPerm(); if perms == "" { perms = "none" }
AuthHandler_GetDefaultPerm(c) ==
    /\ ~crashed
    /\ UNCHANGED << startupVars, configVars >>
    /\ conn[c].pc = "getPerm"
    /\ SetConn(c, [pc |-> "lock",
                   perms |-> IF Config.DefaultPerm = "" THEN "none"
                             ELSE Config.DefaultPerm])
    /\ UNCHANGED << Data, dataMu, Config, usersFile, watched, events, diskOK,
                    crashed, watcher >>

\* dataMu.Lock(): the writer is announced (new readers now wait) ...
AuthHandler_Lock(c) ==
    /\ ~crashed
    /\ UNCHANGED << startupVars, configVars >>
    /\ conn[c].pc = "lock"
    /\ dataMu.writer = {}
    /\ dataMu' = [dataMu EXCEPT !.writer = {c}]
    /\ SetConn(c, [pc |-> "write"])
    /\ UNCHANGED << Data, Config, usersFile, watched, events, diskOK, crashed,
                    watcher >>

\* A registration that stores the claimed user name without the remote address.
AuthHandler_Write_BareName(c) ==
    /\ ~crashed
    /\ UNCHANGED << startupVars, configVars >>
    /\ conn[c].pc = "write"
    /\ dataMu.writer = {c}
    /\ dataMu.readers = {}
    /\ Data' = MapSet(Data, conn[c].userKey, User(conn[c].user, conn[c].perms))
    /\ dataMu' = [dataMu EXCEPT !.writer = {}]
    /\ SetConn(c, [pc |-> "saveRLock"])
    /\ UNCHANGED << Config, usersFile, watched, events, diskOK, crashed, watcher >>

\* ... and once the readers have left:
\* Data[userKey] = User{Name: username, Perm: perms}; dataMu.Unlock().  An
\* assignment to an entry of the nil map is a Go runtime panic, which nothing
\* recovers: the process ends.
AuthHandler_Write(c) ==
    /\ ~crashed
    /\ UNCHANGED << startupVars, configVars >>
    /\ conn[c].pc = "write"
    /\ dataMu.writer = {c}
    /\ dataMu.readers = {}
    /\ IF dataNil
       THEN /\ crashed' = TRUE
            /\ UNCHANGED << Data, dataMu, conn >>
       ELSE /\ Data' = MapSet(Data, conn[c].userKey,
                              User(conn[c].user \o "@" \o conn[c].addr, conn[c].perms))
            /\ dataMu' = [dataMu EXCEPT !.writer = {}]
            /\ SetConn(c, [pc |-> "saveRLock"])
            /\ UNCHANGED crashed
    /\ UNCHANGED << Config, usersFile, watched, events, diskOK, watcher >>

(* ---------------------- SaveUsers / WriteJSONFile --------------------- *)

\* A SaveUsers that writes without taking the read lock.
SaveUsers_RLock_NoLock(c) ==
    /\ ~crashed
    /\ UNCHANGED << startupVars, configVars >>
    /\ conn[c].pc = "saveRLock"
    /\ SetConn(c, [pc |-> "suspend"])
    /\ UNCHANGED << Data, dataMu, Config, usersFile, watched, events, diskOK,
                    crashed, watcher >>

\* SaveUsers: dataMu.RLock()
SaveUsers_RLock(c) ==
    /\ ~crashed
    /\ UNCHANGED << startupVars, configVars >>
    /\ conn[c].pc = "saveRLock"
    /\ dataMu.writer = {}
    /\ dataMu' = [dataMu EXCEPT !.readers = @ \cup {c}]
    /\ SetConn(c, [pc |-> "suspend"])
    /\ UNCHANGED << Data, Config, usersFile, watched, events, diskOK, crashed,
                    watcher >>

\* WriteJSONFile: suspendFileWatch(filePath): fileWatcher.Remove(filePath)
suspendFileWatch(c) ==
    /\ ~crashed
    /\ UNCHANGED << startupVars, configVars >>
    /\ conn[c].pc = "suspend"
    /\ watched' = watched \ {Users}
    /\ SetConn(c, [pc |-> "create"])
    /\ UNCHANGED << Data, dataMu, Config, usersFile, events, diskOK, crashed,
                    watcher >>

\* writeJSONToFile: file, err := os.Create(filePath) truncates the file in place
writeJSONToFile_Create(c) ==
    /\ ~crashed
    /\ UNCHANGED << startupVars, configVars >>
    /\ conn[c].pc = "create"
    /\ IF diskOK
       THEN /\ usersFile' = EmptyFile
            /\ events' = Notify(events)
            /\ SetConn(c, [pc |-> "encode"])
       ELSE /\ SetConn(c, [pc |-> "resume", err |-> TRUE])
            /\ UNCHANGED << usersFile, events >>
    /\ UNCHANGED << Data, dataMu, Config, watched, diskOK, crashed, watcher >>

\* writeJSONToFile: encoder.Encode(data) writes the whole document
writeJSONToFile_Encode(c) ==
    /\ ~crashed
    /\ UNCHANGED << startupVars, configVars >>
    /\ conn[c].pc = "encode"
    /\ IF diskOK
       THEN /\ usersFile' = MarshalUsers(Data)
            /\ events' = Notify(events)
            /\ SetConn(c, [pc |-> "resume", err |-> FALSE])
       ELSE /\ SetConn(c, [pc |-> "resume", err |-> TRUE])
            /\ UNCHANGED << usersFile, events >>
    /\ UNCHANGED << Data, dataMu, Config, watched, diskOK, crashed, watcher >>

\* A resume that forgets the path: nothing is added after a save.
resumeFileWatch_NoAdd(c) ==
    /\ ~crashed
    /\ UNCHANGED << startupVars, configVars >>
    /\ conn[c].pc = "resume"
    /\ SetConn(c, [pc |-> "runlock"])
    /\ UNCHANGED << Data, dataMu, Config, usersFile, watched, events, diskOK,
                    crashed, watcher >>

\* WriteJSONFile: defer resumeFileWatch(filePath): after the sleep, the path is
\* added again if os.Stat finds the file
resumeFileWatch(c) ==
    /\ ~crashed
    /\ UNCHANGED << startupVars, configVars >>
    /\ conn[c].pc = "resume"
    /\ watched' = IF usersFile.kind # "absent" THEN WatcherAdd(Users) ELSE watched
    /\ SetConn(c, [pc |-> "runlock"])
    /\ UNCHANGED << Data, dataMu, Config, usersFile, events, diskOK, crashed,
                    watcher >>

\* An AuthHandler that drops the error of SaveUsers and admits the connection.
SaveUsers_RUnlock_IgnoreErr(c) ==
    /\ ~crashed
    /\ UNCHANGED << startupVars, configVars >>
    /\ conn[c].pc = "runlock"
    /\ dataMu' = [dataMu EXCEPT !.readers = @ \ {c}]
    /\ SetConn(c, [pc |-> "done", result |-> TRUE])
    /\ UNCHANGED << Data, Config, usersFile, watched, events, diskOK, crashed,
                    watcher >>

\* SaveUsers: defer dataMu.RUnlock(); AuthHandler returns false on an error of
\* SaveUsers and true otherwise
SaveUsers_RUnlock(c) ==
    /\ ~crashed
    /\ UNCHANGED << startupVars, configVars >>
    /\ conn[c].pc = "runlock"
    /\ dataMu' = [dataMu EXCEPT !.readers = @ \ {c}]
    /\ SetConn(c, [pc |-> "done", result |-> ~conn[c].err])
    /\ UNCHANGED << Data, Config, usersFile, watched, events, diskOK, crashed,
                    watcher >>

(* ----------------------------- the watcher ---------------------------- *)

\* watchFiles: event := <-fileWatcher.Events; handleFileEvent(event) with
\* event.Has(fsnotify.Write) calls reloadModifiedFile, which calls ReloadUsers
watchFiles_Recv ==
    /\ ~crashed
    /\ UNCHANGED << startupVars, configVars >>
    /\ watcher.pc = "idle"
    /\ events > 0
    /\ events' = events - 1
    /\ watcher' = [watcher EXCEPT !.pc = "open"]
    /\ UNCHANGED << Data, dataMu, Config, usersFile, watched, diskOK, crashed,
                    conn >>

\* InitUsers: os.Open, io.ReadAll, json.Unmarshal into newData; a missing file
\* gives an empty map, an unparsable one returns the error
InitUsers_Read ==
    /\ ~crashed
    /\ UNCHANGED << startupVars, configVars >>
    /\ watcher.pc = "open"
    /\ IF usersFile.kind = "absent"
       THEN watcher' = [IdleWatcher EXCEPT !.pc = "lock"]
       ELSE IF UnmarshalUsers(usersFile).err
       THEN watcher' = IdleWatcher
       ELSE watcher' = [IdleWatcher EXCEPT !.pc = "lock",
                                           !.newData = UnmarshalUsers(usersFile).map,
                                           !.nil = UnmarshalUsers(usersFile).nil]
    /\ UNCHANGED << Data, dataMu, Config, usersFile, watched, events, diskOK,
                    crashed, conn >>

\* InitUsers: dataMu.Lock()
InitUsers_Lock ==
    /\ ~crashed
    /\ UNCHANGED << startupVars, configVars >>
    /\ watcher.pc = "lock"
    /\ dataMu.writer = {}
    /\ dataMu' = [dataMu EXCEPT !.writer = {WatcherProc}]
    /\ watcher' = [watcher EXCEPT !.pc = "install"]
    /\ UNCHANGED << Data, Config, usersFile, watched, events, diskOK, crashed,
                    conn >>

\* A reload that merges: entries of the file are added to the registry.
InitUsers_Install_Merge ==
    /\ ~crashed
    /\ UNCHANGED << startupVars, configVars >>
    /\ watcher.pc = "install"
    /\ dataMu.writer = {WatcherProc}
    /\ dataMu.readers = {}
    /\ Data' = [k \in DOMAIN Data \cup DOMAIN watcher.newData |->
                   IF k \in DOMAIN watcher.newData THEN watcher.newData[k]
                   ELSE Data[k]]
    /\ dataMu' = [dataMu EXCEPT !.writer = {}]
    /\ watcher' = IdleWatcher
    /\ UNCHANGED << Config, usersFile, watched, events, diskOK, crashed, conn >>

\* InitUsers: Data = newData; dataMu.Unlock()
InitUsers_Install ==
    /\ ~crashed
    /\ UNCHANGED << main, bootVars, configVars >>
    /\ watcher.pc = "install"
    /\ dataMu.writer = {WatcherProc}
    /\ dataMu.readers = {}
    /\ Data' = watcher.newData
    /\ dataNil' = watcher.nil
    /\ dataMu' = [dataMu EXCEPT !.writer = {}]
    /\ watcher' = IdleWatcher
    /\ UNCHANGED << Config, usersFile, watched, events, diskOK, crashed, conn >>

(* ----------------------------- sessions ------------------------------ *)

\* The session of a connection: what the SSH context keeps of it.
SessionOf(c, key) ==
    [f \in DOMAIN IdleConn |->
        IF f = "key" THEN key
        ELSE IF f \in {"user", "addr"} THEN conn[c][f]
        ELSE IdleConn[f]]

\* if len(sess.Command()) != 0 { next(sess); return }
BypassTui(cmd) == cmd # ""

\* A hook that serves every repository name.
RepoMatches_Any(repo) == repo \in Repos

\* if repo != h.repoName { return git.NoAccess }
RepoMatches(repo) == repo = RepoName

\* A session reaches tui.Middleware with the key the connection was accepted
\* with (no key at all for a connection admitted without one), a command (""
\* for an interactive login) and, for a Git command, a repository.  With a
\* command it goes to the next handler, the Git middleware, which calls
\* Hook.AuthRepo(repo, key); without a command or a key it is refused the TUI.
Middleware(c, key, cmd, repo) ==
    /\ ~crashed
    /\ UNCHANGED << startupVars, configVars >>
    /\ main.pc = "serving"
    /\ \/ conn[c].pc = "done" /\ conn[c].result /\ key = conn[c].key
       \/ conn[c].pc = "idle" /\ key = NilKey /\ cmd = ""
    /\ LET sess == SessionOf(c, key)
       IN  IF BypassTui(cmd)
           THEN IF ~RepoMatches(repo)
                THEN conn' = [conn EXCEPT ![c] = [sess EXCEPT
                        !.pc = "closed", !.cmd = cmd, !.repo = repo,
                        !.next = TRUE, !.access = "NoAccess"]]
                ELSE conn' = [conn EXCEPT ![c] = [sess EXCEPT
                        !.pc = "repoRLock", !.cmd = cmd, !.repo = repo,
                        !.next = TRUE, !.userKey = UserKey(key)]]
           ELSE IF key = NilKey
                THEN conn' = [conn EXCEPT ![c] = [sess EXCEPT
                        !.pc = "closed", !.next = TRUE]]
                ELSE conn' = [conn EXCEPT ![c] = [sess EXCEPT
                        !.pc = "gateRLock", !.userKey = UserKey(key)]]
    /\ UNCHANGED << Data, dataMu, Config, usersFile, watched, events, diskOK,
                    crashed, watcher >>

\* A GetUserByKey that reads Data without taking the read lock.
GetUserByKey_NoLock(c) ==
    /\ ~crashed
    /\ UNCHANGED << startupVars, configVars >>
    /\ conn[c].pc \in {"gateRLock", "repoRLock"}
    /\ SetConn(c, [pc |-> IF conn[c].pc = "gateRLock" THEN "gateRead" ELSE "repoRead"])
    /\ UNCHANGED << Data, dataMu, Config, usersFile, watched, events, diskOK,
                    crashed, watcher >>

\* GetUserByKey: dataMu.RLock()
GetUserByKey_RLock(c) ==
    /\ ~crashed
    /\ UNCHANGED << startupVars, configVars >>
    /\ conn[c].pc \in {"gateRLock", "repoRLock"}
    /\ dataMu.writer = {}
    /\ dataMu' = [dataMu EXCEPT !.readers = @ \cup {c}]
    /\ SetConn(c, [pc |-> IF conn[c].pc = "gateRLock" THEN "gateRead" ELSE "repoRead"])
    /\ UNCHANGED << Data, Config, usersFile, watched, events, diskOK, crashed,
                    watcher >>

\* user, ok := Data[key]
GetUserByKey(key) ==
    IF key \in DOMAIN Data
    THEN [ok |-> TRUE, perm |-> Data[key].perm]
    ELSE [ok |-> FALSE, perm |-> ""]

\* A gate that opens the TUI to every registered user.
AdminGate_AnyUser(exists, perm) == exists

\* if !exists || user.Perm != "admin" { next(sess); return }
AdminGate(exists, perm) == exists /\ perm = "admin"

\* tui.Middleware: GetUserByKey returns (its deferred RUnlock runs); a session
\* that is not an admin's goes to the next handler, an admin's gets the TUI if
\* the repository opens and a PTY is active.
Middleware_Gate(c) ==
    /\ ~crashed
    /\ UNCHANGED << startupVars, configVars >>
    /\ conn[c].pc = "gateRead"
    /\ dataMu' = [dataMu EXCEPT !.readers = @ \ {c}]
    /\ LET u == GetUserByKey(conn[c].userKey)
       IN  IF AdminGate(u.ok, u.perm)
           THEN \E ready \in BOOLEAN :
                   IF ready
                   THEN SetConn(c, [pc |-> "tui", found |-> u.ok, perm |-> u.perm,
                                    tui |-> TRUE])
                   ELSE SetConn(c, [pc |-> "closed", found |-> u.ok,
                                    perm |-> u.perm, next |-> TRUE])
           ELSE SetConn(c, [pc |-> "closed", found |-> u.ok, perm |-> u.perm,
                            next |-> TRUE])
    /\ UNCHANGED << Data, Config, usersFile, watched, events, diskOK, crashed,
                    watcher >>

\* tui.Middleware: p.Run() returns; next(sess)
Middleware_TuiExit(c) ==
    /\ ~crashed
    /\ UNCHANGED << startupVars, configVars >>
    /\ conn[c].pc = "tui"
    /\ console[c].pc = "menu"
    /\ SetConn(c, [pc |-> "closed", next |-> TRUE])
    /\ UNCHANGED << Data, dataMu, Config, usersFile, watched, events, diskOK,
                    crashed, watcher >>

(* ------------------------------ AuthRepo ------------------------------ *)

\* A mapping that fails open: an unrecognised permission string reads.
AccessLevel_FailOpen(perm) ==
    CASE perm = "read" -> "ReadOnlyAccess"
      [] perm = "write" -> "ReadWriteAccess"
      [] perm = "admin" -> "AdminAccess"
      [] OTHER -> "ReadOnlyAccess"

\* switch user.Perm { case "read": ...; case "write": ...; case "admin": ...;
\* default: NoAccess }
AccessLevel(perm) ==
    CASE perm = "read" -> "ReadOnlyAccess"
      [] perm = "write" -> "ReadWriteAccess"
      [] perm = "admin" -> "AdminAccess"
      [] OTHER -> "NoAccess"

\* A hook that lets an unknown key read when the server is public.
AuthRepo_Decide_Public(c) ==
    /\ ~crashed
    /\ UNCHANGED << startupVars, configVars >>
    /\ conn[c].pc = "repoRead"
    /\ dataMu' = [dataMu EXCEPT !.readers = @ \ {c}]
    /\ LET u == GetUserByKey(conn[c].userKey)
       IN  SetConn(c, [pc |-> "closed", found |-> u.ok, perm |-> u.perm,
                       access |-> IF ~u.ok
                                  THEN (IF Config.Public THEN "ReadOnlyAccess"
                                        ELSE "NoAccess")
                                  ELSE AccessLevel(u.perm)])
    /\ UNCHANGED << Data, Config, usersFile, watched, events, diskOK, crashed,
                    watcher >>

\* Hook.AuthRepo: GetUserByKey returns (its deferred RUnlock runs); an unknown
\* key gets NoAccess, a known one the level of its permission
AuthRepo_Decide(c) ==
    /\ ~crashed
    /\ UNCHANGED << startupVars, configVars >>
    /\ conn[c].pc = "repoRead"
    /\ dataMu' = [dataMu EXCEPT !.readers = @ \ {c}]
    /\ LET u == GetUserByKey(conn[c].userKey)
       IN  SetConn(c, [pc |-> "closed", found |-> u.ok, perm |-> u.perm,
                       access |-> IF ~u.ok THEN "NoAccess" ELSE AccessLevel(u.perm)])
    /\ UNCHANGED << Data, Config, usersFile, watched, events, diskOK, crashed,
                    watcher >>

(* --------------------------- the environment -------------------------- *)

\* The state directory becomes unwritable (full disk, permissions) or writable
\* again.
DiskChange ==
    /\ ~crashed
    /\ UNCHANGED << startupVars, configVars >>
    /\ diskOK' = ~diskOK
    /\ UNCHANGED << Data, dataMu, Config, usersFile, watched, events, crashed,
                    conn, watcher >>

\* A file that is not JSON.
GarbageFile == [kind |-> "garbage", members |-> << >>]

\* What an operator leaves in users.json: the host alone as admin, the host
\* with a collaborator, a file cut to nothing, a file that is not JSON.
OperatorFiles ==
    { MarshalUsers(MapSet(EmptyMap, UserKey(Key1), User("host (admin)", "admin"))),
      MarshalUsers(MapSet(MapSet(EmptyMap, UserKey(Key1), User("host (admin)", "admin")),
                          UserKey(Key2), User("carol", "write"))),
      EmptyFile,
      GarbageFile }

\* Another process writes users.json in place; fsnotify reports the write if
\* the path is watched.
ExternalEdit(doc) ==
    /\ ~crashed
    /\ UNCHANGED << startupVars, configVars >>
    /\ usersFile.kind # "absent"
    /\ usersFile' = doc
    /\ events' = Notify(events)
    /\ UNCHANGED << Data, dataMu, Config, watched, diskOK, crashed, conn, watcher >>

\* The connection ends; its goroutine is free for the next connection.
Close(c) ==
    /\ ~crashed
    /\ UNCHANGED << startupVars, configVars >>
    /\ conn[c].pc \in {"done", "closed"}
    /\ conn' = [conn EXCEPT ![c] = IdleConn]
    /\ UNCHANGED << Data, dataMu, Config, usersFile, watched, events, diskOK,
                    crashed, watcher >>

\* What goes on inside a connection goroutine once its inputs are chosen.
ConnInternal(c) ==
    \/ AuthHandler_CheckPublic(c)
    \/ AuthHandler_GetDefaultPerm(c)
    \/ AuthHandler_Lock(c)
    \/ AuthHandler_Write(c)
    \/ SaveUsers_RLock(c)
    \/ suspendFileWatch(c)
    \/ writeJSONToFile_Create(c)
    \/ writeJSONToFile_Encode(c)
    \/ resumeFileWatch(c)
    \/ SaveUsers_RUnlock(c)
    \/ GetUserByKey_RLock(c)
    \/ Close(c)

\* The watchFiles goroutine.
WatcherStep ==
    \/ watchFiles_Recv
    \/ InitUsers_Read
    \/ InitUsers_Lock
    \/ InitUsers_Install

\* The server under load: connections in parallel that register and then use
\* Git, and the watcher, on a disk that takes every write.
Next ==
    \/ \E c \in Conns :
          \/ \E key \in Keys, user \in ClaimedUsers, addr \in RemoteAddrs :
                AuthHandler_Lookup(c, key, user, addr)
          \/ Middleware(c, conn[c].key, "git-upload-pack", RepoName)
          \/ AuthRepo_Decide(c)
          \/ ConnInternal(c)
    \/ WatcherStep

Spec == Init /\ [][Next]_vars

\* One connection at a time.
FirstConn == CHOOSE c \in Conns : \A d \in Conns : c <= d

\* The server serving one connection after the other, each with any key, user
\* name, command and repository, on a disk that may refuse writes.  No two
\* saves overlap, so no write of this process reaches the watcher.
NextSeq ==
    \/ \E key \in Keys, user \in ClaimedUsers, addr \in RemoteAddrs :
          AuthHandler_Lookup(FirstConn, key, user, addr)
    \/ \E key \in {conn[FirstConn].key, NilKey}, cmd \in Commands, repo \in Repos :
          Middleware(FirstConn, key, cmd, repo)
    \/ Middleware_Gate(FirstConn)
    \/ Middleware_TuiExit(FirstConn)
    \/ AuthRepo_Decide(FirstConn)
    \/ ConnInternal(FirstConn)
    \/ DiskChange

SpecSeq == InitSeq /\ [][NextSeq]_vars

(* ----------------------- configuration changes ------------------------ *)

SetConsole(c, fields) ==
    console' = [console EXCEPT ![c] = [f \in DOMAIN console[c] |->
                   IF f \in DOMAIN fields THEN fields[f] ELSE console[c][f]]]

\* A write to config.json queues one event if the path is in the watch set.
NotifyConf(n) == IF Conf \in watched /\ n < MaxEvents THEN n + 1 ELSE n

\* perms := []string{"none", "read", "write", "admin"}
perms == << "none", "read", "write", "admin" >>

\* A cycle that stops at the last permission instead of wrapping.
CyclePerm_NoWrap(current) ==
    IF \E i \in 1..Len(perms) : perms[i] = current
    THEN LET i == CHOOSE i \in 1..Len(perms) : perms[i] = current
         IN  perms[IF i = Len(perms) THEN i ELSE i + 1]
    ELSE perms[1]

\* cycleDefaultPerm and cycleUserPerm: idx := 0; for i, p := range perms { if
\* p == current { idx = (i + 1) % len(perms); break } }; perms[idx]
CyclePerm(current) ==
    IF \E i \in 1..Len(perms) : perms[i] = current
    THEN LET i == CHOOSE i \in 1..Len(perms) : perms[i] = current
         IN  perms[(i % Len(perms)) + 1]
    ELSE perms[1]

\* cyclePermValue(current, direction): idx is the place of current (0 if it
\* is not in perms); perms[(idx + direction + len(perms)) % len(perms)]
cyclePermValue(current, direction) ==
    LET idx == IF \E i \in 1..Len(perms) : perms[i] = current
               THEN (CHOOSE i \in 1..Len(perms) : perms[i] = current) - 1
               ELSE 0
    IN  perms[((idx + direction + Len(perms)) % Len(perms)) + 1]

\* togglePublic: currentPublic := logger.GetConfigPublic()
togglePublic_GetPublic(c) ==
    /\ ~crashed
    /\ conn[c].pc = "tui"
    /\ console[c].pc = "menu"
    /\ SetConsole(c, [pc |-> "togglePublic", cmd |-> "togglePublic",
                      newConfig |-> ConfigData(~Config.Public, "")])
    /\ UNCHANGED << Data, dataMu, Config, usersFile, watched, events, diskOK,
                    crashed, conn, watcher, startupVars, confFile, confEvents >>

\* togglePublic: newConfig := ConfigData{!currentPublic, GetConfigDefaultPerm()}
togglePublic_GetDefaultPerm(c) ==
    /\ ~crashed
    /\ console[c].pc = "togglePublic"
    /\ SetConsole(c, [pc |-> "setConfig",
                      newConfig |-> ConfigData(console[c].newConfig.Public,
                                               Config.DefaultPerm)])
    /\ UNCHANGED << Data, dataMu, Config, usersFile, watched, events, diskOK,
                    crashed, conn, watcher, startupVars, confFile, confEvents >>

\* cycleDefaultPerm: current := logger.GetConfigDefaultPerm(); the loop
cycleDefaultPerm_GetDefaultPerm(c) ==
    /\ ~crashed
    /\ conn[c].pc = "tui"
    /\ console[c].pc = "menu"
    /\ SetConsole(c, [pc |-> "cycleDefaultPerm", cmd |-> "cycleDefaultPerm",
                      newConfig |-> ConfigData(FALSE, CyclePerm(Config.DefaultPerm))])
    /\ UNCHANGED << Data, dataMu, Config, usersFile, watched, events, diskOK,
                    crashed, conn, watcher, startupVars, confFile, confEvents >>

\* cycleDefaultPerm: newConfig := ConfigData{GetConfigPublic(), perms[idx]}
cycleDefaultPerm_GetPublic(c) ==
    /\ ~crashed
    /\ console[c].pc = "cycleDefaultPerm"
    /\ SetConsole(c, [pc |-> "setConfig",
                      newConfig |-> ConfigData(Config.Public,
                                               console[c].newConfig.DefaultPerm)])
    /\ UNCHANGED << Data, dataMu, Config, usersFile, watched, events, diskOK,
                    crashed, conn, watcher, startupVars, confFile, confEvents >>

\* logger.SetConfig(newConfig) called by the console; what follows, the write
\* of newConfig to config.json, is the same for both commands
SetConfig(c) ==
    /\ ~crashed
    /\ console[c].pc = "setConfig"
    /\ Config' = console[c].newConfig
    /\ SetConsole(c, [pc |-> "suspend", cmd |-> ""])
    /\ UNCHANGED << Data, dataMu, usersFile, watched, events, diskOK, crashed,
                    conn, watcher, startupVars, confFile, confEvents >>

\* logger.WriteJSONFile(logger.Conf, newConfig): suspendFileWatch
Conf_suspendFileWatch(c) ==
    /\ ~crashed
    /\ console[c].pc = "suspend"
    /\ watched' = watched \ {Conf}
    /\ SetConsole(c, [pc |-> "create"])
    /\ UNCHANGED << Data, dataMu, Config, usersFile, events, diskOK, crashed,
                    conn, watcher, startupVars, confFile, confEvents >>

\* writeJSONToFile: os.Create truncates config.json, or fails
Conf_Create(c) ==
    /\ ~crashed
    /\ console[c].pc = "create"
    /\ IF diskOK
       THEN /\ confFile' = EmptyFile
            /\ confEvents' = NotifyConf(confEvents)
            /\ SetConsole(c, [pc |-> "encode"])
       ELSE /\ SetConsole(c, [pc |-> "resume"])
            /\ UNCHANGED << confFile, confEvents >>
    /\ UNCHANGED << Data, dataMu, Config, usersFile, watched, events, diskOK,
                    crashed, conn, watcher, startupVars >>

\* writeJSONToFile: encoder.Encode(data) writes the document, or fails
Conf_Encode(c) ==
    /\ ~crashed
    /\ console[c].pc = "encode"
    /\ IF diskOK
       THEN /\ confFile' = MarshalConfig(console[c].newConfig)
            /\ confEvents' = NotifyConf(confEvents)
       ELSE UNCHANGED << confFile, confEvents >>
    /\ SetConsole(c, [pc |-> "resume"])
    /\ UNCHANGED << Data, dataMu, Config, usersFile, watched, events, diskOK,
                    crashed, conn, watcher, startupVars >>

\* the deferred resumeFileWatch; the command is over and the menu is back
Conf_resumeFileWatch(c) ==
    /\ ~crashed
    /\ console[c].pc = "resume"
    /\ watched' = IF confFile.kind # "absent" THEN WatcherAdd(Conf) ELSE watched
    /\ SetConsole(c, [pc |-> "menu", cmd |-> ""])
    /\ UNCHANGED << Data, dataMu, Config, usersFile, events, diskOK, crashed,
                    conn, watcher, startupVars, confFile, confEvents >>

\* The steps of a console command once it has begun.
ConsoleInternal(c) ==
    \/ togglePublic_GetDefaultPerm(c)
    \/ cycleDefaultPerm_GetPublic(c)
    \/ SetConfig(c)
    \/ Conf_suspendFileWatch(c)
    \/ Conf_Create(c)
    \/ Conf_Encode(c)
    \/ Conf_resumeFileWatch(c)

\* watchFiles: a write event for config.json arrives
watchFiles_RecvConf ==
    /\ ~crashed
    /\ watcher.pc = "idle"
    /\ confEvents > 0
    /\ confEvents' = confEvents - 1
    /\ watcher' = [watcher EXCEPT !.pc = "reloadConfig"]
    /\ UNCHANGED << Data, dataMu, Config, usersFile, watched, events, diskOK,
                    crashed, conn, startupVars, confFile, console >>

\* A reload that installs the zero configuration when config.json cannot be
\* opened or decoded.
ReloadConfig_Decode_ZeroOnError ==
    /\ ~crashed
    /\ watcher.pc = "reloadConfig"
    /\ watcher' = [watcher EXCEPT !.pc = "setConfig",
                                  !.newConfig = UnmarshalConfig(confFile).cfg]
    /\ UNCHANGED << Data, dataMu, Config, usersFile, watched, events, diskOK,
                    crashed, conn, startupVars, configVars >>

\* ReloadConfig: os.Open and Decode(&newConfig); an error leaves Config alone
ReloadConfig_Decode ==
    /\ ~crashed
    /\ watcher.pc = "reloadConfig"
    /\ LET r == UnmarshalConfig(confFile)
       IN  IF confFile.kind = "absent" \/ r.err
           THEN watcher' = IdleWatcher
           ELSE watcher' = [watcher EXCEPT !.pc = "setConfig", !.newConfig = r.cfg]
    /\ UNCHANGED << Data, dataMu, Config, usersFile, watched, events, diskOK,
                    crashed, conn, startupVars, configVars >>

\* ReloadConfig: SetConfig(newConfig)
ReloadConfig_SetConfig ==
    /\ ~crashed
    /\ watcher.pc = "setConfig"
    /\ Config' = watcher.newConfig
    /\ watcher' = IdleWatcher
    /\ UNCHANGED << Data, dataMu, usersFile, watched, events, diskOK, crashed,
                    conn, startupVars, configVars >>

ConfigWatcherStep ==
    \/ watchFiles_RecvConf
    \/ ReloadConfig_Decode
    \/ ReloadConfig_SetConfig

\* The config.json documents an operator writes: open to guests as readers,
\* closed, open with no default_perm member, and a file cut short.
OperatorConfs ==
    { MarshalConfig(ConfigData(TRUE, "read")),
      MarshalConfig(ConfigData(FALSE, "read")),
      ObjectFile(<< [key |-> "public", val |-> "true"] >>),
      GarbageFile }

\* An operator (an editor, a script) rewrites config.json in place.
ExternalConfEdit(doc) ==
    /\ ~crashed
    /\ confFile.kind # "absent"
    /\ confFile' = doc
    /\ confEvents' = NotifyConf(confEvents)
    /\ UNCHANGED << Data, dataMu, Config, usersFile, watched, events, diskOK,
                    crashed, conn, watcher, startupVars, console >>

\* An operator removes config.json; the kernel drops the watch.  (What
\* handleFileEvent does with the remove event concerns the watch set alone
\* and is modelled for users.json, see tryReAddToWatcher.)
ExternalConfRemove ==
    /\ ~crashed
    /\ confFile.kind # "absent"
    /\ confFile' = AbsentFile
    /\ watched' = watched \ {Conf}
    /\ UNCHANGED << Data, dataMu, Config, usersFile, events, diskOK, crashed,
                    conn, watcher, startupVars, confEvents, console >>

\* A server that serves, private or public, with config.json watched.
InitReload ==
    InitWith({EmptyMap}, [Public : BOOLEAN, DefaultPerm : {"read", "write"}])

\* An operator rewrites and removes config.json while the watcher reloads it.
NextReload ==
    \/ \E doc \in OperatorConfs : ExternalConfEdit(doc)
    \/ ExternalConfRemove
    \/ ConfigWatcherStep

SpecReload == InitReload /\ [][NextReload]_vars

(* ------------------------------ startup ------------------------------- *)

IsSpace(tok) == tok \in {" ", "  ", "\t", "\n"}

\* strings.TrimSpace
RECURSIVE TrimLeft(_)
TrimLeft(text) ==
    IF text # << >> /\ IsSpace(Head(text)) THEN TrimLeft(Tail(text)) ELSE text

RECURSIVE TrimRight(_)
TrimRight(text) ==
    IF text # << >> /\ IsSpace(text[Len(text)])
    THEN TrimRight(SubSeq(text, 1, Len(text) - 1))
    ELSE text

TrimSpace(text) == TrimRight(TrimLeft(text))

\* strings.Fields: the words between the white space
Fields(text) == SelectSeq(text, LAMBDA tok : ~IsSpace(tok))

\* for _, path := range keyPaths { if key, err := os.ReadFile(path); err == nil
\* { hostKey = string(key); break } }: the content of the first file that can
\* be read, "" if there is none.
RECURSIVE FirstReadable(_)
FirstReadable(files) ==
    IF files = << >> THEN << >>
    ELSE IF Head(files).readable THEN Head(files).text
    ELSE FirstReadable(Tail(files))

\* for _, user := range Data { if user.Perm == "admin" { hasAdmin = true } }
HasAdmin(m) == \E k \in DOMAIN m : m[k].perm = "admin"

\* The main goroutine at a point of Start, and after Start has returned with
\* an error.
MainAt(pc) == [pc |-> pc, err |-> "", key |-> "", shutdown |-> FALSE]
Exited(err) == [pc |-> "exited", err |-> err, key |-> "", shutdown |-> FALSE]

\* A load for which a missing users.json is an error like any other.
initGitPortServer_InitUsers_Strict ==
    /\ ~crashed
    /\ main.pc = "initUsers"
    /\ IF usersFile.kind = "absent" \/ UnmarshalUsers(usersFile).err
       THEN /\ main' = Exited("failed to initialize users")
            /\ UNCHANGED Data
       ELSE /\ Data' = UnmarshalUsers(usersFile).map
            /\ main' = MainAt("ensureAdmin")
    /\ UNCHANGED << dataMu, Config, usersFile, watched, events, diskOK, crashed,
                    conn, watcher, hostVars, configVars >>

\* A load that takes a users.json it cannot parse for an empty registry.
initGitPortServer_InitUsers_Lenient ==
    /\ ~crashed
    /\ main.pc = "initUsers"
    /\ Data' = IF usersFile.kind = "absent" \/ UnmarshalUsers(usersFile).err
               THEN EmptyMap
               ELSE UnmarshalUsers(usersFile).map
    /\ main' = MainAt("ensureAdmin")
    /\ UNCHANGED << dataMu, Config, usersFile, watched, events, diskOK, crashed,
                    conn, watcher, hostVars, configVars >>

\* initGitPortServer: auth.InitUsers().  The registry is the file's content,
\* an empty map if there is no file; a file that does not parse is an error,
\* and Start returns.
initGitPortServer_InitUsers ==
    /\ ~crashed
    /\ main.pc = "initUsers"
    /\ IF usersFile.kind = "absent"
       THEN /\ Data' = EmptyMap
            /\ dataNil' = FALSE
            /\ main' = MainAt("ensureAdmin")
       ELSE IF UnmarshalUsers(usersFile).err
       THEN /\ main' = Exited("failed to initialize users")
            /\ UNCHANGED << Data, dataNil >>
       ELSE /\ Data' = UnmarshalUsers(usersFile).map
            /\ dataNil' = UnmarshalUsers(usersFile).nil
            /\ main' = MainAt("ensureAdmin")
    /\ UNCHANGED << dataMu, Config, usersFile, watched, events, diskOK, crashed,
                    conn, watcher, bootVars, configVars >>

\* A key that keeps the comment of the key file.
NormalizedKey_WithComment(keyParts) ==
    IF Len(keyParts) > 2
    THEN keyParts[1] \o " " \o keyParts[2] \o " " \o keyParts[3]
    ELSE keyParts[1] \o " " \o keyParts[2]

\* normalizedKey := keyParts[0] + " " + keyParts[1]
NormalizedKey(keyParts) == keyParts[1] \o " " \o keyParts[2]

\* A bootstrap that does not look for an admin first.
EnsureHostAdmin_Find_NoScan ==
    /\ ~crashed
    /\ main.pc = "ensureAdmin"
    /\ IF ~hostKeys.home
       THEN main' = Exited("failed to ensure host admin")
       ELSE LET hostKey == FirstReadable(hostKeys.files)
                keyParts == Fields(TrimSpace(hostKey))
            IN  IF hostKey = << >> \/ Len(keyParts) < 2
                THEN main' = MainAt("initWatcher")
                ELSE main' = [MainAt("adminWrite") EXCEPT
                                 !.key = NormalizedKey(keyParts)]
    /\ UNCHANGED << Data, dataMu, Config, usersFile, watched, events, diskOK,
                    crashed, conn, watcher, hostVars, configVars >>

\* EnsureHostAdmin up to the insert: nothing to do if an admin exists; an
\* error if the home directory is unknown; nothing to do if no key file can
\* be read or the one read has fewer than two fields; else the key is
\* keyParts[0] + " " + keyParts[1].
EnsureHostAdmin_Find ==
    /\ ~crashed
    /\ main.pc = "ensureAdmin"
    /\ IF HasAdmin(Data)
       THEN main' = MainAt("initWatcher")
       ELSE IF ~hostKeys.home
       THEN main' = Exited("failed to ensure host admin")
       ELSE LET hostKey == FirstReadable(hostKeys.files)
                keyParts == Fields(TrimSpace(hostKey))
            IN  IF hostKey = << >> \/ Len(keyParts) < 2
                THEN main' = MainAt("initWatcher")
                ELSE main' = [MainAt("adminWrite") EXCEPT
                                 !.key = NormalizedKey(keyParts)]
    /\ UNCHANGED << Data, dataMu, Config, usersFile, watched, events, diskOK,
                    crashed, conn, watcher, hostVars, configVars >>

\* EnsureHostAdmin: dataMu.Lock(); Data[normalizedKey] = User{"host (admin)",
\* "admin"}; dataMu.Unlock().  An assignment to an entry of the nil map is a
\* Go runtime panic, which nothing recovers.
EnsureHostAdmin_Write ==
    /\ ~crashed
    /\ main.pc = "adminWrite"
    /\ dataMu = [writer |-> {}, readers |-> {}]
    /\ IF dataNil
       THEN /\ crashed' = TRUE
            /\ UNCHANGED << Data, main >>
       ELSE /\ Data' = MapSet(Data, main.key, User("host (admin)", "admin"))
            /\ main' = [main EXCEPT !.pc = "adminSave"]
            /\ UNCHANGED crashed
    /\ UNCHANGED << dataMu, Config, usersFile, watched, events, diskOK, conn,
                    watcher, hostVars, configVars >>

\* A bootstrap that does not persist the registry.
EnsureHostAdmin_Save_Skip ==
    /\ ~crashed
    /\ main.pc = "adminSave"
    /\ main' = MainAt("initWatcher")
    /\ UNCHANGED << Data, dataMu, Config, usersFile, watched, events, diskOK,
                    crashed, conn, watcher, hostVars, configVars >>

\* EnsureHostAdmin: SaveUsers().  No watcher exists yet, so WriteJSONFile only
\* creates and writes the file; if that fails (at os.Create, or at Encode
\* after the file was truncated) the error ends Start.
EnsureHostAdmin_Save ==
    /\ ~crashed
    /\ main.pc = "adminSave"
    /\ IF diskOK
       THEN /\ usersFile' = MarshalUsers(Data)
            /\ main' = MainAt("initWatcher")
       ELSE /\ usersFile' \in {usersFile, EmptyFile}
            /\ main' = Exited("failed to ensure host admin")
    /\ UNCHANGED << Data, dataMu, Config, watched, events, diskOK, crashed,
                    conn, watcher, hostVars, configVars >>

\* initGitPortServer: logger.InitFileWatcher() watches the two files that
\* exist and starts watchFiles; if fsnotify.NewWatcher fails, Start returns.
InitFileWatcher ==
    /\ ~crashed
    /\ main.pc = "initWatcher"
    /\ \E ok \in BOOLEAN :
          IF ok
          THEN /\ watched' = {f \in {Users, Conf} :
                                \/ f = Users /\ usersFile.kind # "absent"
                                \/ f = Conf /\ confFile.kind # "absent"}
               /\ main' = MainAt("listen")
          ELSE /\ main' = Exited("failed to initialize file watcher")
               /\ UNCHANGED watched
    /\ UNCHANGED << Data, dataMu, Config, usersFile, events, diskOK, crashed,
                    conn, watcher, hostVars, configVars >>

\* Start: server.startGitPortServer() creates the SSH server and serves, or
\* wish.NewServer fails and Start returns through its deferred call.
startGitPortServer ==
    /\ ~crashed
    /\ main.pc = "listen"
    /\ cli.out # "Init"
    /\ \E ok \in BOOLEAN :
          main' = IF ok THEN Serving
                  ELSE [MainAt("closeWatcher") EXCEPT !.err = "could not create server"]
    /\ UNCHANGED << Data, dataMu, Config, usersFile, watched, events, diskOK,
                    crashed, conn, watcher, hostVars, configVars >>

\* startGitPortServer: a termination signal arrives on done.
Signal ==
    /\ ~crashed
    /\ main.pc = "serving"
    /\ main' = MainAt("shutdown")
    /\ UNCHANGED << Data, dataMu, Config, usersFile, watched, events, diskOK,
                    crashed, conn, watcher, hostVars, configVars >>

\* startGitPortServer: ListenAndServe returns an error other than
\* ErrServerClosed; the goroutine logs it and sends on done.
ListenAndServe_Fail ==
    /\ ~crashed
    /\ main.pc = "serving"
    /\ main' = [MainAt("shutdown") EXCEPT !.err = "Could not start GitPort server"]
    /\ UNCHANGED << Data, dataMu, Config, usersFile, watched, events, diskOK,
                    crashed, conn, watcher, hostVars, configVars >>

\* shutdownServer: server.Shutdown(ctx) with 30 seconds of grace, which
\* succeeds or returns an error; startGitPortServer returns to Start.
shutdownServer ==
    /\ ~crashed
    /\ main.pc = "shutdown"
    /\ \E ok \in BOOLEAN :
          main' = [main EXCEPT !.pc = "closeWatcher", !.shutdown = TRUE,
                               !.err = IF ok THEN @ ELSE "could not stop GitPort server"]
    /\ UNCHANGED << Data, dataMu, Config, usersFile, watched, events, diskOK,
                    crashed, conn, watcher, hostVars, configVars >>

\* Start returns: the deferred logger.CloseFileWatcher() closes fileWatcher.
\* The watches are removed, the events not yet received are dropped and the
\* channels Events and Errors are closed.
CloseFileWatcher ==
    /\ ~crashed
    /\ main.pc = "closeWatcher"
    /\ main' = [main EXCEPT !.pc = "stopped"]
    /\ watched' = {}
    /\ events' = 0
    /\ confEvents' = 0
    /\ UNCHANGED << Data, dataMu, Config, usersFile, diskOK, crashed, conn,
                    watcher, hostVars, confFile, console >>

\* watchFiles: a receive on the closed channel gives ok = false and the loop
\* returns.
watchFiles_Return ==
    /\ ~crashed
    /\ watcher.pc = "idle"
    /\ WatcherClosed
    /\ watcher' = [watcher EXCEPT !.pc = "returned"]
    /\ UNCHANGED << Data, dataMu, Config, usersFile, watched, events, diskOK,
                    crashed, conn, startupVars, configVars >>

\* The users.json a server can find when it starts: none, one that is not
\* JSON or is empty, an empty object, a guest alone, the host as admin.
BootFiles ==
    { AbsentFile, GarbageFile, EmptyFile, MarshalUsers(EmptyMap),
      MarshalUsers(MapSet(EmptyMap, UserKey(Key2), User("bob@10.0.0.5:50412", "read"))),
      MarshalUsers(MapSet(EmptyMap, UserKey(Key1), User("host (admin)", "admin"))) }

\* The key files a host can have: none; the ed25519, RSA or ECDSA key alone; a
\* first file with a single field or with nothing in it before a good one; a
\* key with white space around it and no comment; no home directory known
\* ($HOME is not set), so that no path leads to a key file.
BootHostKeys ==
    { NoHostKeys,
      HostKeys(TRUE, << PubFileOf(Key1), Unreadable, Unreadable >>),
      HostKeys(TRUE, << Unreadable, PubFileOf(Key2), Unreadable >>),
      HostKeys(TRUE, << Unreadable, Unreadable, PubFileOf(Key1) >>),
      HostKeys(TRUE, << KeyFile(<< "ssh-ed25519", "\n" >>), PubFileOf(Key2), Unreadable >>),
      HostKeys(TRUE, << KeyFile(<< >>), PubFileOf(Key2), Unreadable >>),
      HostKeys(TRUE, << KeyFile(<< "\n", "ssh-ed25519", "  ", Base64(Key1.blob), "\n" >>),
                        Unreadable, Unreadable >>),
      HostKeys(FALSE, << Unreadable, Unreadable, Unreadable >>) }

\* Start has reached initGitPortServer: nothing is loaded, watched or served.
\* logger.Config is the zero ConfigData; config.json is what `gitport init`
\* wrote.
InitBoot ==
    /\ Data = EmptyMap
    /\ dataMu = [writer |-> {}, readers |-> {}]
    /\ Config = ZeroConfig
    /\ usersFile \in BootFiles
    /\ watched = {}
    /\ events = 0
    /\ diskOK = TRUE
    /\ crashed = FALSE
    /\ conn = [c \in Conns |-> IdleConn]
    /\ watcher = IdleWatcher
    /\ main = MainAt("initUsers")
    /\ hostKeys \in BootHostKeys
    /\ cli = NoCommand
    /\ setup = Initialized
    /\ rewatch = NoRewatch
    /\ dataNil = FALSE
    /\ confFile = MarshalConfig(ConfigData(TRUE, "read"))
    /\ confEvents = 0
    /\ console = [c \in Conns |-> IdleConsole]

\* Startup, and then the server serving one connection after the other; the
\* operator may open the server to guests by writing config.json.
NextBoot ==
    \/ initGitPortServer_InitUsers
    \/ EnsureHostAdmin_Find
    \/ EnsureHostAdmin_Write
    \/ EnsureHostAdmin_Save
    \/ InitFileWatcher
    \/ startGitPortServer
    \/ CloseFileWatcher
    \/ DiskChange
    \/ \E key \in Keys :
          AuthHandler_Lookup(FirstConn, key, "bob", "10.0.0.5:50412")
    \/ \E key \in {conn[FirstConn].key, NilKey}, cmd \in Commands :
          Middleware(FirstConn, key, cmd, RepoName)
    \/ Middleware_Gate(FirstConn)
    \/ Middleware_TuiExit(FirstConn)
    \/ AuthRepo_Decide(FirstConn)
    \/ ConnInternal(FirstConn)
    \/ ExternalConfEdit(MarshalConfig(ConfigData(TRUE, "read")))
    \/ ConfigWatcherStep

SpecBoot == InitBoot /\ [][NextBoot]_vars

(* --------------------------- the command line ------------------------- *)

\* The most words a command line has after the program's name.
MaxArgs == 3

\* Words of a command line.
Words == {"start", "init", "help", "status", "8080"}

\* os.Args: the program's name and up to MaxArgs words.
ArgVectors ==
    UNION { { << "gitport" >> \o w : w \in [1..n -> Words] } : n \in 0..MaxArgs }

\* What main comes to: a call of server.Start(port) or of server.Init, a
\* message about the arguments, the help text, nothing at all, or a Go
\* runtime panic (index out of range).
Outcome(out, port) == [out |-> out, port |-> port]

\* main.  Go's args[i] is args[i + 1] here; an index at or beyond len(args)
\* panics.
Main(args) ==
    IF 1 >= Len(args) THEN Outcome("panic", "")
    ELSE CASE args[2] = "start" ->
                IF Len(args) # 2 THEN Outcome("usage", "")
                ELSE IF 2 >= Len(args) THEN Outcome("panic", "")
                ELSE Outcome("Start", args[3])
           [] args[2] = "init" ->
                IF Len(args) # 1 THEN Outcome("usage", "")
                ELSE Outcome("Init", "")
           [] args[2] = "help" -> Outcome("help", "")
           [] OTHER -> Outcome("nothing", "")

\* A process started with some command line, before main has run: nothing is
\* loaded and nothing is watched.
InitCli ==
    /\ cli \in [args : ArgVectors, out : {"pending"}, port : {""}]
    /\ Data = EmptyMap
    /\ dataMu = [writer |-> {}, readers |-> {}]
    /\ Config = ZeroConfig
    /\ usersFile = AbsentFile
    /\ watched = {}
    /\ events = 0
    /\ diskOK = TRUE
    /\ crashed = FALSE
    /\ conn = [c \in Conns |-> IdleConn]
    /\ watcher = IdleWatcher
    /\ main = MainAt("main")
    /\ hostKeys = NoHostKeys
    /\ setup = Initialized
    /\ rewatch = NoRewatch
    /\ dataNil = FALSE
    /\ confFile = AbsentFile
    /\ confEvents = 0
    /\ console = [c \in Conns |-> IdleConsole]

\* main runs.
RunMain ==
    /\ ~crashed
    /\ cli.out = "pending"
    /\ cli' = [args |-> cli.args] @@ Main(cli.args)
    /\ UNCHANGED << Data, dataMu, Config, usersFile, watched, events, diskOK,
                    crashed, conn, watcher, main, hostKeys, setup, rewatch,
                    dataNil, configVars >>

\* One run of the program from its command line.
NextCli ==
    \/ RunMain

SpecCli == InitCli /\ [][NextCli]_vars

(* --------------------------- first-time setup ------------------------- *)

\* What the configuration prompt can answer (getCLIConfig: y or n, and one of
\* the four permissions, anything else being none).
PromptAnswers == [Public : BOOLEAN, DefaultPerm : {"none", "read", "write", "admin"}]

\* Init, Start: without .git in the working directory nothing is done.
Init_ContainsFile ==
    /\ ~crashed
    /\ main.pc = "entry"
    /\ main' = IF setup.git THEN MainAt("initBareRepo")
                            ELSE Exited("This directory doesn't contain a .git folder")
    /\ UNCHANGED << Data, dataMu, Config, usersFile, watched, events, diskOK,
                    crashed, conn, watcher, hostVars, configVars >>

\* initBareRepo: fails without a user configuration directory, fails if
\* <bare repository>/.gitport cannot be opened, and only then looks for the
\* bare repository and clones the working directory if there is none (the
\* clone can fail).  Init goes on to initConfig, Start to initGitPortServer.
initBareRepo ==
    /\ ~crashed
    /\ main.pc = "initBareRepo"
    /\ \E cloned \in BOOLEAN :
          LET next == MainAt(IF cli.out = "Init" THEN "initConfig" ELSE "initUsers")
          IN  CASE ~setup.configDir ->
                      /\ main' = Exited("Couldn't find user config directory")
                      /\ UNCHANGED setup
                [] setup.configDir /\ ~setup.gitport ->
                      /\ main' = Exited("Cannot start an uninitialized server")
                      /\ UNCHANGED setup
                [] setup.configDir /\ setup.gitport /\ setup.bare ->
                      /\ main' = next
                      /\ UNCHANGED setup
                [] OTHER ->
                      /\ main' = IF cloned THEN next
                                 ELSE Exited("failed to clone bare repository")
                      /\ setup' = [setup EXCEPT !.bare = cloned]
    /\ UNCHANGED << Data, dataMu, Config, usersFile, watched, events, diskOK,
                    crashed, conn, watcher, hostKeys, cli, rewatch, dataNil,
                    configVars >>

\* Init: initConfig makes the directory .gitport and opens config.json: a
\* missing file leads to the prompt, a file that parses is installed with
\* SetConfig, one that does not parse ends Init.
initConfig ==
    /\ ~crashed
    /\ main.pc = "initConfig"
    /\ setup' = [setup EXCEPT !.gitport = TRUE]
    /\ LET parsed == UnmarshalConfig(confFile)
       IN  CASE confFile.kind = "absent" ->
                   /\ main' = MainAt("createDefaultConfig")
                   /\ UNCHANGED Config
             [] confFile.kind # "absent" /\ parsed.err ->
                   /\ main' = Exited("Failed to initialize config")
                   /\ UNCHANGED Config
             [] OTHER ->
                   /\ main' = MainAt("initUsers")
                   /\ Config' = parsed.cfg
    /\ UNCHANGED << Data, dataMu, usersFile, watched, events, diskOK, crashed,
                    conn, watcher, hostKeys, cli, rewatch, dataNil, configVars >>

\* Init: createDefaultConfig asks for the configuration, installs the answer
\* with SetConfig and writes config.json with WriteJSONFile (no watcher runs
\* yet); if the write fails Init ends.
createDefaultConfig ==
    /\ ~crashed
    /\ main.pc = "createDefaultConfig"
    /\ \E newConfig \in PromptAnswers, ok \in BOOLEAN :
          /\ Config' = newConfig
          /\ IF ok
             THEN /\ confFile' = MarshalConfig(newConfig)
                  /\ main' = MainAt("initUsers")
             ELSE /\ main' = Exited("Failed to initialize config")
                  /\ UNCHANGED confFile
    /\ UNCHANGED << Data, dataMu, usersFile, watched, events, diskOK, crashed,
                    conn, watcher, hostVars, confEvents, console >>

\* Init: once initGitPortServer has set the server's components up, Init
\* returns and the process ends.
Init_Return ==
    /\ ~crashed
    /\ main.pc = "listen"
    /\ cli.out = "Init"
    /\ main' = Exited("")
    /\ UNCHANGED << Data, dataMu, Config, usersFile, watched, events, diskOK,
                    crashed, conn, watcher, hostVars, configVars >>

\* What is on disk when Init or Start is called: a directory that is not a
\* Git working directory or one that is; no server state at all, a bare
\* repository without .gitport, or .gitport without config.json, with a
\* config.json, or with one that is not JSON.
SetupStates ==
    { [setup |-> Setup(git, dir, st[1], st[2]), conf |-> st[3]] :
        git \in BOOLEAN, dir \in BOOLEAN,
        st \in { << FALSE, FALSE, AbsentFile >>,
                 << TRUE, FALSE, AbsentFile >>,
                 << TRUE, TRUE, AbsentFile >>,
                 << TRUE, TRUE, MarshalConfig(ConfigData(TRUE, "read")) >>,
                 << TRUE, TRUE, GarbageFile >> } }

\* server.Init or server.Start("8080") has been called.
InitSetup ==
    /\ cli \in { [args |-> << "gitport", "init" >>, out |-> "Init", port |-> ""],
                 [args |-> << "gitport", "start", "8080" >>, out |-> "Start",
                  port |-> "8080"] }
    /\ \E st \in SetupStates :
          /\ setup = st.setup
          /\ confFile = st.conf
    /\ rewatch = NoRewatch
    /\ dataNil = FALSE
    /\ hostKeys \in { NoHostKeys,
                      HostKeys(TRUE, << PubFileOf(Key1), Unreadable, Unreadable >>) }
    /\ Data = EmptyMap
    /\ dataMu = [writer |-> {}, readers |-> {}]
    /\ Config = ZeroConfig
    /\ usersFile = AbsentFile
    /\ watched = {}
    /\ events = 0
    /\ diskOK = TRUE
    /\ crashed = FALSE
    /\ conn = [c \in Conns |-> IdleConn]
    /\ watcher = IdleWatcher
    /\ main = MainAt("entry")
    /\ confEvents = 0
    /\ console = [c \in Conns |-> IdleConsole]

\* Init or Start up to the point where the server listens or the call
\* returns.
NextSetup ==
    \/ Init_ContainsFile
    \/ initBareRepo
    \/ initConfig
    \/ createDefaultConfig
    \/ initGitPortServer_InitUsers
    \/ EnsureHostAdmin_Find
    \/ EnsureHostAdmin_Write
    \/ EnsureHostAdmin_Save
    \/ InitFileWatcher
    \/ Init_Return
    \/ startGitPortServer
    \/ CloseFileWatcher

SpecSetup == InitSetup /\ [][NextSetup]_vars

\* The server serving one connection after the other while an operator edits
\* users.json and the watcher reconciles.
NextEdit ==
    \/ \E key \in Keys, user \in ClaimedUsers, addr \in RemoteAddrs :
          AuthHandler_Lookup(FirstConn, key, user, addr)
    \/ Middleware(FirstConn, conn[FirstConn].key, "git-upload-pack", RepoName)
    \/ AuthRepo_Decide(FirstConn)
    \/ ConnInternal(FirstConn)
    \/ \E doc \in OperatorFiles : ExternalEdit(doc)
    \/ WatcherStep

SpecEdit == Init /\ [][NextEdit]_vars

\* The steps of an auto-registration after its lookup, up to its return.
RegistrationStep(c) ==
    \/ AuthHandler_CheckPublic(c)
    \/ AuthHandler_GetDefaultPerm(c)
    \/ AuthHandler_Lock(c)
    \/ AuthHandler_Write(c)
    \/ SaveUsers_RLock(c)
    \/ suspendFileWatch(c)
    \/ writeJSONToFile_Create(c)
    \/ writeJSONToFile_Encode(c)
    \/ resumeFileWatch(c)
    \/ SaveUsers_RUnlock(c)

(* ------------------------------ shutdown ------------------------------ *)

\* A public server, new or with the host as admin, that is serving.
InitStop ==
    InitWith({EmptyMap, MapSet(EmptyMap, UserKey(Key1), User("host (admin)", "admin"))},
             {ConfigData(TRUE, "read")})

\* A connection registers and an operator edits users.json and config.json
\* while a signal or a failure of ListenAndServe ends the server.
NextStop ==
    \/ AuthHandler_Lookup(FirstConn, Key2, "bob", "10.0.0.5:50412")
    \/ RegistrationStep(FirstConn)
    \/ Close(FirstConn)
    \/ ExternalEdit(MarshalUsers(MapSet(EmptyMap, UserKey(Key1),
                                       User("host (admin)", "admin"))))
    \/ ExternalConfEdit(MarshalConfig(ConfigData(FALSE, "read")))
    \/ WatcherStep
    \/ ConfigWatcherStep
    \/ Signal
    \/ ListenAndServe_Fail
    \/ shutdownServer
    \/ CloseFileWatcher
    \/ watchFiles_Return

SpecStop == InitStop /\ [][NextStop]_vars

(* --------------------------- watch recovery --------------------------- *)

\* An operator removes users.json or renames it away.  If the path is watched
\* the kernel drops the watch and a remove or rename event is queued.
ExternalRemove ==
    /\ ~crashed
    /\ usersFile.kind # "absent"
    /\ usersFile' = AbsentFile
    /\ IF Users \in watched
       THEN /\ watched' = watched \ {Users}
            /\ rewatch' = [rewatch EXCEPT !.removed = TRUE]
       ELSE UNCHANGED << watched, rewatch >>
    /\ UNCHANGED << Data, dataMu, Config, events, diskOK, crashed, conn,
                    watcher, main, hostKeys, cli, setup, dataNil, configVars >>

\* An operator creates users.json anew; nothing watches the path, so no event
\* is delivered.
ExternalCreate(doc) ==
    /\ ~crashed
    /\ usersFile.kind = "absent"
    /\ usersFile' = doc
    /\ UNCHANGED << Data, dataMu, Config, watched, events, diskOK, crashed,
                    conn, watcher, startupVars, configVars >>

\* watchFiles, handleFileEvent: the event has Remove or Rename, so
\* tryReAddToWatcher starts a goroutine and the loop goes on.
handleFileEvent_Remove ==
    /\ ~crashed
    /\ watcher.pc = "idle"
    /\ rewatch.removed
    /\ rewatch' = [removed |-> FALSE, retries |-> rewatch.retries + 1]
    /\ UNCHANGED << Data, dataMu, Config, usersFile, watched, events, diskOK,
                    crashed, conn, watcher, main, hostKeys, cli, setup, dataNil,
                    configVars >>

\* tryReAddToWatcher's goroutine, 100 ms later: one os.Stat, and
\* fileWatcher.Add if the file is there; then the goroutine ends.
tryReAddToWatcher ==
    /\ ~crashed
    /\ rewatch.retries > 0
    /\ rewatch' = [rewatch EXCEPT !.retries = @ - 1]
    /\ watched' = IF usersFile.kind # "absent" THEN WatcherAdd(Users) ELSE watched
    /\ UNCHANGED << Data, dataMu, Config, usersFile, events, diskOK, crashed,
                    conn, watcher, main, hostKeys, cli, setup, dataNil, configVars >>

\* The users.json an operator puts in place.
RecreatedFiles ==
    { MarshalUsers(MapSet(EmptyMap, UserKey(Key1), User("host (admin)", "admin"))),
      MarshalUsers(MapSet(EmptyMap, UserKey(Key2), User("bob@10.0.0.5:50412", "read"))) }

\* A server that serves, with users.json watched.
InitWatch ==
    InitWith({MapSet(EmptyMap, UserKey(Key1), User("host (admin)", "admin"))},
             [Public : BOOLEAN, DefaultPerm : {"read"}])

\* An operator removes, recreates and edits users.json while the watcher
\* handles the events.
NextWatch ==
    \/ ExternalRemove
    \/ \E doc \in RecreatedFiles : ExternalCreate(doc)
    \/ \E doc \in RecreatedFiles : ExternalEdit(doc)
    \/ handleFileEvent_Remove
    \/ tryReAddToWatcher
    \/ WatcherStep

\* The goroutines run: the watcher receives what is queued and finishes its
\* reloads, the goroutine of tryReAddToWatcher wakes up.
FairWatch ==
    /\ WF_vars(handleFileEvent_Remove)
    /\ WF_vars(tryReAddToWatcher)
    /\ WF_vars(WatcherStep)

SpecWatch == InitWatch /\ [][NextWatch]_vars /\ FairWatch

\* A public server with no identity yet.
InitLive ==
    InitWith({EmptyMap}, {ConfigData(TRUE, "read")})

\* First contacts only: connections with keys the registry does not hold
\* arrive in parallel, register and leave, and the watcher reconciles.  No
\* other process touches users.json and every write succeeds.
NextLive ==
    \/ \E c \in Conns :
          \/ \E key \in Keys, user \in ClaimedUsers, addr \in RemoteAddrs :
                /\ UserKey(key) \notin DOMAIN Data
                /\ AuthHandler_Lookup(c, key, user, addr)
          \/ RegistrationStep(c)
          \/ Close(c)
    \/ WatcherStep

\* A goroutine that can run does run: a handler goes on to its return and its
\* connection ends, the watcher takes the events queued for it.  Nothing
\* obliges a new connection to arrive.
FairLive ==
    /\ \A c \in Conns : WF_vars(RegistrationStep(c) \/ Close(c))
    /\ WF_vars(WatcherStep)

SpecLive == InitLive /\ [][NextLive]_vars /\ FairLive

(* ---------------------------- properties ----------------------------- *)

\* The identity AuthHandler stores for the connection c.
GuestName(c) == conn[c].user \o "@" \o conn[c].addr

\* c is in a Git session on the repository the hook is bound to and AuthRepo
\* has returned.
AuthRepoReturned(c) ==
    /\ conn[c].pc = "closed"
    /\ conn[c].cmd # ""
    /\ conn[c].repo = RepoName

\* C1 (public gate): when `public` is false, the step of AuthHandler that reads
\* `public` for a key it did not find in the registry ends the call with the
\* result false, and leaves the registry and users.json as they were.
C1_PublicGate ==
    [][ \A c \in Conns :
          ( /\ conn[c].pc = "checkPublic"
            /\ conn'[c] # conn[c]
            /\ ~Config.Public )
          => /\ conn'[c].pc = "done"
             /\ conn'[c].result = FALSE
             /\ Data' = Data
             /\ conn[c].userKey \notin DOMAIN Data'
             /\ usersFile' = usersFile ]_vars

\* A private server has refused an unknown key that claims a user name.
C1_Witness ==
    \E c \in Conns :
        /\ conn[c].pc = "done"
        /\ ~conn[c].exist
        /\ ~conn[c].result
        /\ ~Config.Public
        /\ conn[c].userKey = UserKey(Key2)
        /\ conn[c].userKey \notin DOMAIN Data
        /\ usersFile.kind # "empty"

\* C2 (fail-closed permission mapping): for a key registered with the stored
\* string p, AuthRepo on the bound repository returns ReadOnlyAccess for "read",
\* ReadWriteAccess for "write", AdminAccess for "admin", and NoAccess for every
\* other string ("none", the empty string, anything unrecognised).
C2_FailClosedMapping ==
    \A c \in Conns :
        (AuthRepoReturned(c) /\ conn[c].userKey \in DOMAIN Data) =>
            LET p == Data[conn[c].userKey].perm
            IN  /\ p = "read" => conn[c].access = "ReadOnlyAccess"
                /\ p = "write" => conn[c].access = "ReadWriteAccess"
                /\ p = "admin" => conn[c].access = "AdminAccess"
                /\ p \notin {"read", "write", "admin"} => conn[c].access = "NoAccess"

\* AuthRepo has answered for a key stored with a string that is no permission.
C2_Witness ==
    \E c \in Conns :
        /\ AuthRepoReturned(c)
        /\ conn[c].found
        /\ conn[c].userKey \in DOMAIN Data
        /\ Data[conn[c].userKey].perm = "root"
        /\ conn[c].access = "NoAccess"

\* C3 (guest auto-registration): on a public server, a call of AuthHandler for
\* an unknown key by user u from a, whose save succeeded, returns true and
\* leaves Data[fingerprint] = {name: "u@a", perm: default_permission} ("none"
\* for an empty default_permission); AuthRepo on the bound repository for that
\* identity returns the level default_permission maps to.
C3_GuestAutoRegistration ==
    \A c \in Conns :
        /\ ( /\ conn[c].pc = "done"
             /\ ~conn[c].exist
             /\ Config.Public
             /\ ~conn[c].err )
           => /\ conn[c].result = TRUE
              /\ conn[c].userKey \in DOMAIN Data
              /\ Data[conn[c].userKey] =
                    User(GuestName(c),
                         IF Config.DefaultPerm = "" THEN "none" ELSE Config.DefaultPerm)
        /\ ( /\ AuthRepoReturned(c)
             /\ conn[c].userKey \in DOMAIN Data
             /\ Data[conn[c].userKey].name = GuestName(c) )
           => /\ Config.DefaultPerm = "read" => conn[c].access = "ReadOnlyAccess"
              /\ Config.DefaultPerm = "write" => conn[c].access = "ReadWriteAccess"
              /\ Config.DefaultPerm = "admin" => conn[c].access = "AdminAccess"
              /\ Config.DefaultPerm \in {"", "none", "root"}
                    => conn[c].access = "NoAccess"

\* bob from 10.0.0.5:50412 registered on first contact and then read the
\* repository as a guest of a server whose default_permission is "read".
C3_Witness ==
    \E c \in Conns :
        /\ AuthRepoReturned(c)
        /\ conn[c].userKey = UserKey(Key2)
        /\ conn[c].userKey \in DOMAIN Data
        /\ Data[conn[c].userKey] = User("bob@10.0.0.5:50412", "read")
        /\ Config.DefaultPerm = "read"
        /\ conn[c].access = "ReadOnlyAccess"
        /\ usersFile = MarshalUsers(Data)

\* C4 (known users are always admitted): a call of AuthHandler for a key whose
\* fingerprint is in the registry returns true whatever `public` and the
\* stored permission are, and changes neither the registry nor users.json.
C4_KnownUsersAdmitted ==
    [][ \A c \in Conns :
          ( /\ conn[c].pc = "idle"
            /\ conn'[c].pc \in {"done", "checkPublic"}
            /\ conn'[c].userKey \in DOMAIN Data )
          => /\ conn'[c].pc = "done"
             /\ conn'[c].result = TRUE
             /\ Data' = Data
             /\ usersFile' = usersFile ]_vars

\* A private server has admitted a key stored with the permission "none".
C4_Witness ==
    \E c \in Conns :
        /\ conn[c].pc = "done"
        /\ conn[c].exist
        /\ conn[c].result
        /\ ~Config.Public
        /\ Data[conn[c].userKey].perm = "none"

\* C5 (repository-name binding): AuthRepo called with a repository name other
\* than the one the hook was built with returns NoAccess for every key, an
\* admin's included.
C5_RepoNameBinding ==
    \A c \in Conns :
        ( /\ conn[c].pc = "closed"
          /\ conn[c].cmd # ""
          /\ conn[c].repo # RepoName )
        => conn[c].access = "NoAccess"

\* An admin has asked for another repository and got NoAccess.
C5_Witness ==
    \E c \in Conns :
        /\ conn[c].pc = "closed"
        /\ conn[c].cmd # ""
        /\ conn[c].repo = "other.git"
        /\ UserKey(conn[c].key) \in DOMAIN Data
        /\ Data[UserKey(conn[c].key)].perm = "admin"
        /\ conn[c].access = "NoAccess"

\* C6 (unknown keys get nothing from AuthRepo): the step of AuthRepo that
\* looks up a fingerprint the registry does not hold returns NoAccess and
\* leaves the registry and users.json as they were, on a public server too.
C6_UnknownKeyNoAccess ==
    [][ \A c \in Conns :
          ( /\ conn[c].pc = "repoRead"
            /\ conn'[c].pc = "closed"
            /\ conn[c].userKey \notin DOMAIN Data )
          => /\ conn'[c].access = "NoAccess"
             /\ ~conn'[c].found
             /\ Data' = Data
             /\ conn[c].userKey \notin DOMAIN Data'
             /\ usersFile' = usersFile ]_vars

\* On a public server AuthRepo has refused a key that the registry no longer
\* held when it was called.
C6_Witness ==
    \E c \in Conns :
        /\ AuthRepoReturned(c)
        /\ Config.Public
        /\ ~conn[c].found
        /\ conn[c].access = "NoAccess"
        /\ conn[c].userKey \notin DOMAIN Data

\* The steps of Hook.AuthRepo of connection c: the repository check, the
\* RLock of GetUserByKey, the read with the deferred RUnlock.
AuthRepoStep(c) ==
    /\ conn'[c] # conn[c]
    /\ \/ conn[c].pc = "done" /\ conn'[c].pc \in {"repoRLock", "closed"}
       \/ conn[c].pc = "repoRLock"
       \/ conn[c].pc = "repoRead"

\* C7 (AuthRepo is a pure lookup): no step of AuthRepo changes the registry,
\* the configuration, users.json or the watch set; AuthRepo reads the registry
\* only while it holds the read lock of dataMu, and while it holds it no
\* goroutine changes the registry.
C7_PureLookup ==
    [][ \A c \in Conns :
          /\ AuthRepoStep(c) =>
                /\ Data' = Data
                /\ Config' = Config
                /\ usersFile' = usersFile
                /\ watched' = watched
          /\ conn[c].pc = "repoRead" =>
                /\ c \in dataMu.readers
                /\ conn'[c].pc = "repoRead" => Data' = Data ]_vars

\* AuthRepo holds the read lock while an auto-registration waits to write.
C7_Witness ==
    \E c \in Conns, d \in Conns :
        /\ conn[c].pc = "repoRead"
        /\ c \in dataMu.readers
        /\ conn[d].pc = "write"
        /\ dataMu.writer = {d}

\* C8 (admin-only interactive surface): the TUI runs only in a session without
\* a command whose key is registered with the permission "admin"; a session
\* without a command that has no key, an unregistered key or another
\* permission ends without the TUI in the next handler; a session with a
\* command never gets the TUI.
C8_AdminOnlyTui ==
    \A c \in Conns :
        LET isAdmin == /\ conn[c].key # NilKey
                       /\ UserKey(conn[c].key) \in DOMAIN Data
                       /\ Data[UserKey(conn[c].key)].perm = "admin"
        IN  /\ conn[c].tui => (conn[c].cmd = "" /\ isAdmin)
            /\ (conn[c].pc = "closed" /\ conn[c].cmd = "" /\ ~isAdmin)
                  => (~conn[c].tui /\ conn[c].next)
            /\ conn[c].cmd # "" => ~conn[c].tui
            /\ (conn[c].pc \in {"repoRLock", "repoRead", "closed"} /\ conn[c].cmd # "")
                  => conn[c].next

\* A user registered with "write" has logged in without a command and has been
\* handed to the next handler without the TUI.
C8_Witness ==
    \E c \in Conns :
        /\ conn[c].pc = "closed"
        /\ conn[c].cmd = ""
        /\ conn[c].found
        /\ conn[c].perm = "write"
        /\ ~conn[c].tui
        /\ conn[c].next

\* The call of AuthHandler of connection c has returned true after it
\* registered the key.
Registered(c) ==
    /\ conn[c].pc = "done"
    /\ ~conn[c].exist
    /\ conn[c].result

\* C9 (race-free first contact): on a public server, once the calls of
\* AuthHandler of two connections have both registered and returned,
\* users.json is one well-formed document and both fingerprints are in the
\* registry and in users.json; if the two presented the same key, the registry
\* holds for it the identity one of the two stored.
C9_RaceFreeFirstContact ==
    \A c \in Conns, d \in Conns :
        (c # d /\ Config.Public /\ Registered(c) /\ Registered(d)) =>
            LET file == UnmarshalUsers(usersFile)
            IN  /\ ~file.err
                /\ {conn[c].userKey, conn[d].userKey} \subseteq DOMAIN Data
                /\ {conn[c].userKey, conn[d].userKey} \subseteq DOMAIN file.map
                /\ conn[c].userKey = conn[d].userKey =>
                      Data[conn[c].userKey] \in
                          {User(GuestName(c), conn[c].perms),
                           User(GuestName(d), conn[d].perms)}

\* C10 (save failure during auto-registration): a call of AuthHandler that
\* registered an unknown key and whose write of users.json failed returns
\* false; the process is still running and the registry still holds the
\* identity the call stored.
C10_SaveFailure ==
    \A c \in Conns :
        ( /\ conn[c].pc = "done"
          /\ ~conn[c].exist
          /\ conn[c].err )
        => /\ conn[c].result = FALSE
           /\ ~crashed
           /\ conn[c].userKey \in DOMAIN Data
           /\ Data[conn[c].userKey] = User(GuestName(c), conn[c].perms)

\* A registration on a public server has failed to write users.json: the file
\* lacks the fingerprint that the registry holds.
C10_Witness ==
    \E c \in Conns :
        /\ conn[c].pc = "done"
        /\ conn[c].err
        /\ ~conn[c].result
        /\ Config.Public
        /\ conn[c].userKey \in DOMAIN Data
        /\ conn[c].userKey \notin DOMAIN UnmarshalUsers(usersFile).map
        /\ ENABLED (\E key \in Keys, user \in ClaimedUsers, addr \in RemoteAddrs :
                        AuthHandler_Lookup(c, key, user, addr)
                    \/ Close(c))

\* C11 (reconciliation replaces, never merges): the step of a reload that
\* installs the parsed users.json leaves the registry equal to exactly that
\* parse, and, when the file still reads as it was parsed, equal to the file's
\* content; an entry that memory held and the parse lacks is gone.
C11_ReloadReplaces ==
    [][ (watcher.pc = "install" /\ watcher'.pc = "idle") =>
            /\ Data' = watcher.newData
            /\ \A k \in DOMAIN Data \ DOMAIN watcher.newData : k \notin DOMAIN Data'
            /\ UnmarshalUsers(usersFile) = [err |-> FALSE, map |-> watcher.newData,
                                          nil |-> FALSE]
                  => Data' = UnmarshalUsers(usersFile').map ]_vars

\* A guest was registered in memory, an operator wrote a users.json without
\* that guest, and after the reload the registry is the file: the guest is
\* gone, the host is still there.
C11_Witness ==
    \E c \in Conns :
        /\ Registered(c)
        /\ conn[c].userKey \notin DOMAIN Data
        /\ UserKey(Key1) \in DOMAIN Data
        /\ usersFile.kind = "object"
        /\ Data = UnmarshalUsers(usersFile).map
        /\ watcher.pc = "idle"
        /\ events = 0

\* What users.json holds as a registry: the parse of the file, no identity for
\* a file that does not exist.
FileRegistry ==
    IF usersFile.kind = "absent" THEN EmptyMap ELSE UnmarshalUsers(usersFile).map

\* No call of AuthHandler is in progress and no connection is open.
NoConnection == \A c \in Conns : conn[c].pc = "idle"

\* C12 (convergence of memory and disk): if from some moment on no connection
\* arrives any more, then from some moment on the registry in memory equals
\* the content of users.json, whatever the interleaving of the handlers,
\* their saves and the reloads of the watcher was.
C12_Convergence ==
    <>[]NoConnection => <>[](crashed \/ Data = FileRegistry)

(* ------------------------------ startup ------------------------------- *)

(* --------------------------- the admin console ------------------------ *)

\* auth.GetAllUsers: a snapshot of the registry (the source is not part of
\* the repository's snapshot; the registry's get_all of the specification).
GetAllUsers == Data

\* auth.UpdateUserPerm(key, perm): the identity under key with its permission
\* replaced (the registry's upsert of the specification; the save follows).
UpdateUserPerm(m, key, perm) ==
    IF key \in DOMAIN m THEN MapSet(m, key, User(m[key].name, perm)) ELSE m

\* cycleUserPerm(key) from the console's user list: the user's permission is
\* looked up in the snapshot, advanced by the idx loop and stored with
\* UpdateUserPerm, which saves the registry like every other write (the watch
\* on users.json suspended, then resumed).
cycleUserPerm(c, key) ==
    /\ ~crashed
    /\ conn[c].pc = "tui"
    /\ console[c].pc = "menu"
    /\ dataMu = [writer |-> {}, readers |-> {}]
    /\ LET users == GetAllUsers
       IN  /\ key \in DOMAIN users
           /\ Data' = UpdateUserPerm(Data, key, CyclePerm(users[key].perm))
    /\ IF diskOK
       THEN /\ usersFile' = MarshalUsers(Data')
            /\ watched' = watched \cup {Users}
       ELSE /\ UNCHANGED usersFile
            /\ watched' = IF usersFile.kind = "absent"
                          THEN watched \ {Users}
                          ELSE watched \cup {Users}
    /\ UNCHANGED << dataMu, Config, events, diskOK, crashed, conn, watcher,
                    startupVars, configVars >>

\* The session of the host once tui.Middleware has let it into the console.
AdminSession ==
    [IdleConn EXCEPT !.pc = "tui", !.key = Key1, !.user = "host",
                     !.addr = "10.0.0.5:50412", !.userKey = UserKey(Key1),
                     !.found = TRUE, !.perm = "admin", !.tui = TRUE]

\* The connection that is not the admin's.
OtherConn == CHOOSE c \in Conns : c # FirstConn

\* A public server whose registry holds the host as admin, with the host in
\* the admin console.
InitAdmin ==
    /\ Data = MapSet(EmptyMap, UserKey(Key1), User("host (admin)", "admin"))
    /\ dataMu = [writer |-> {}, readers |-> {}]
    /\ Config = ConfigData(TRUE, "read")
    /\ usersFile = MarshalUsers(Data)
    /\ watched = {Users, Conf}
    /\ events = 0
    /\ diskOK = TRUE
    /\ crashed = FALSE
    /\ conn = [c \in Conns |-> IF c = FirstConn THEN AdminSession ELSE IdleConn]
    /\ watcher = IdleWatcher
    /\ main = Serving
    /\ hostKeys = NoHostKeys
    /\ cli = NoCommand
    /\ setup = Initialized
    /\ rewatch = NoRewatch
    /\ dataNil = FALSE
    /\ confFile = MarshalConfig(Config)
    /\ confEvents = 0
    /\ console = [c \in Conns |-> IdleConsole]

\* The host cycles the permissions of the users in the console's list while a
\* key unknown to the server connects, registers and uses Git.
NextAdmin ==
    \/ \E key \in DOMAIN Data : cycleUserPerm(FirstConn, key)
    \/ DiskChange
    \/ AuthHandler_Lookup(OtherConn, Key2, "bob", "10.0.0.5:50412")
    \/ Middleware(OtherConn, Key2, "git-upload-pack", RepoName)
    \/ AuthRepo_Decide(OtherConn)
    \/ ConnInternal(OtherConn)

SpecAdmin == InitAdmin /\ [][NextAdmin]_vars

\* The host changes the configuration from the console and an operator
\* closes the server by rewriting config.json, while a key unknown to the
\* server connects.
NextConfig ==
    \/ togglePublic_GetPublic(FirstConn)
    \/ cycleDefaultPerm_GetDefaultPerm(FirstConn)
    \/ ConsoleInternal(FirstConn)
    \/ ExternalConfEdit(MarshalConfig(ConfigData(FALSE, "read")))
    \/ ConfigWatcherStep
    \/ AuthHandler_Lookup(OtherConn, Key2, "bob", "10.0.0.5:50412")
    \/ RegistrationStep(OtherConn)
    \/ Close(OtherConn)

SpecConfig == InitAdmin /\ [][NextConfig]_vars

\* The key file EnsureHostAdmin reads holds at least two fields.
HostKeyPresent ==
    /\ hostKeys.home
    /\ Len(Fields(TrimSpace(FirstReadable(hostKeys.files)))) >= 2

NoReadableKeyFile ==
    \A i \in 1..Len(hostKeys.files) : ~hostKeys.files[i].readable

\* C14: bootstrap soft failure.  When EnsureHostAdmin runs on a registry
\* without an admin and none of the key files can be read, it returns nil
\* (startup goes on to the file watcher) and leaves the registry and
\* users.json as they were.
C14_BootstrapSoftFailure ==
    [][ (main.pc = "ensureAdmin" /\ main' # main /\ ~HasAdmin(Data)
            /\ NoReadableKeyFile)
            => /\ main'.pc = "initWatcher"
               /\ main'.err = ""
               /\ Data' = Data
               /\ usersFile' = usersFile ]_vars

\* C15: no users.json at startup.  InitUsers returns nil and the registry is
\* an empty map; as long as nothing has been saved, a lookup on it finds
\* nothing (and does not fail) and a registration adds its identity to it.
C15_AbsentUsersFile ==
    [][ /\ (main.pc = "initUsers" /\ main' # main /\ usersFile.kind = "absent")
            => /\ main' = MainAt("ensureAdmin")
               /\ Data' = EmptyMap
        /\ \A c \in Conns :
              /\ (conn[c].pc = "idle" /\ conn'[c].pc # "idle"
                    /\ usersFile.kind = "absent" /\ Data = EmptyMap)
                  => ~crashed' /\ ~conn'[c].exist
              /\ (conn[c].pc = "write" /\ conn'[c].pc # "write"
                    /\ usersFile.kind = "absent")
                  => /\ ~crashed'
                     /\ DOMAIN Data' = DOMAIN Data \cup {conn[c].userKey}
                     /\ Data'[conn[c].userKey] = User(GuestName(c), conn[c].perms) ]_vars

C15_Witness ==
    \E c \in Conns :
        /\ conn[c].pc = "saveRLock"
        /\ usersFile.kind = "absent"
        /\ DOMAIN Data = {conn[c].userKey}

\* C16: a users.json that exists but does not parse is fatal.  InitUsers
\* returns the error, initGitPortServer and Start give up, and from then on
\* the process has ended: it never listens, no handler ever runs, the
\* registry is never used.
C16_MalformedUsersFatal ==
    [][ /\ (main.pc = "initUsers" /\ main' # main /\ usersFile.kind # "absent"
                /\ UnmarshalUsers(usersFile).err)
            => /\ main' = Exited("failed to initialize users")
               /\ Data' = Data
        /\ main.pc = "exited"
            => /\ main' = main
               /\ conn = [c \in Conns |-> IdleConn]
               /\ conn' = conn
               /\ Data' = Data ]_vars

C16_Witness ==
    /\ main = Exited("failed to initialize users")
    /\ usersFile = GarbageFile
    /\ Data = EmptyMap

\* The key file EnsureHostAdmin reads is the public half of `key` as
\* ssh-keygen writes it, or that key with other white space and no comment.
HostKeyFileOf(key) ==
    /\ hostKeys.home
    /\ FirstReadable(hostKeys.files) \in
          { PubFileOf(key).text,
            << "\n", key.type, "  ", Base64(key.blob), "\n" >> }

\* C18: one fingerprint per key.  The identity EnsureHostAdmin inserts for
\* the host's key file stands under the fingerprint the server computes for
\* that key when it connects; AuthHandler finds a key exactly if its
\* fingerprint is in the registry; and a key whose fingerprint stands in the
\* registry as admin gets AdminAccess from AuthRepo and passes the TUI gate.
C18_OneFingerprint ==
    [][ /\ (main.pc = "adminWrite" /\ main' # main)
            => \A key \in Keys :
                  HostKeyFileOf(key)
                  => /\ UserKey(key) \in DOMAIN Data'
                     /\ Data'[UserKey(key)] = User("host (admin)", "admin")
        /\ \A c \in Conns :
              LET key == conn[c].key
                  admin == /\ key # NilKey
                           /\ UserKey(key) \in DOMAIN Data
                           /\ Data[UserKey(key)].perm = "admin"
              IN  /\ (conn[c].pc = "idle" /\ conn'[c].pc \in {"done", "checkPublic"})
                      => conn'[c].exist = (UserKey(conn'[c].key) \in DOMAIN Data)
                  /\ (conn[c].pc = "repoRead" /\ conn'[c].pc = "closed" /\ admin)
                      => conn'[c].access = "AdminAccess"
                  /\ (conn[c].pc = "gateRead" /\ conn'[c].pc # "gateRead" /\ admin)
                      => /\ conn'[c].found
                         /\ conn'[c].perm = "admin"
                         /\ conn'[c].pc = "tui" \/ ~conn'[c].tui ]_vars

C18_Witness ==
    \E c \in Conns :
        /\ conn[c].key = Key2
        /\ conn[c].access = "AdminAccess"
        /\ Data[UserKey(Key2)] = User("host (admin)", "admin")
        /\ HostKeyFileOf(Key2)

\* C19: an unset default permission fails closed.  On a public server whose
\* default_perm is the empty string, an unknown key is registered with perm
\* "none" (in memory and, once saved, in users.json), never with an empty
\* or a higher permission, and the call returns true.
C19_UnsetDefaultPerm ==
    \A c \in Conns :
        (Config.Public /\ Config.DefaultPerm = "" /\ ~conn[c].exist)
        => /\ conn[c].pc \in {"lock", "write", "saveRLock", "suspend", "create",
                              "encode", "resume", "runlock"}
                => conn[c].perms = "none"
           /\ conn[c].pc \in {"saveRLock", "suspend", "create", "encode",
                              "resume", "runlock"}
                => Data[conn[c].userKey] = User(GuestName(c), "none")
           /\ (conn[c].pc = "done" /\ ~conn[c].err)
                => /\ conn[c].result
                   /\ Data[conn[c].userKey] = User(GuestName(c), "none")
                   /\ UnmarshalUsers(usersFile).map[conn[c].userKey].perm = "none"

C19_Witness ==
    \E c \in Conns :
        /\ Registered(c)
        /\ Config.Public
        /\ Config.DefaultPerm = ""
        /\ Data[conn[c].userKey] = User(GuestName(c), "none")
        /\ usersFile = MarshalUsers(Data)

(* --------------------------- the admin console ------------------------ *)

\* The cycle of the four permissions.
PermCycle ==
    [p \in {"none", "read", "write", "admin"} |->
        CASE p = "none" -> "read"
          [] p = "read" -> "write"
          [] p = "write" -> "admin"
          [] p = "admin" -> "none"]

\* C17: permission cycling.  A cycle command on a user changes nothing but
\* that user's permission, which goes one step along none, read, write,
\* admin, none, in the registry and in the users.json it saves; and four
\* steps from any of the four values lead back to it.
C17_PermissionCycle ==
    [][ /\ \A k \in DOMAIN Data :
              (k \in DOMAIN Data' /\ Data'[k] # Data[k])
              => /\ Data'[k].name = Data[k].name
                 /\ \A j \in DOMAIN Data \ {k} : Data'[j] = Data[j]
                 /\ Data[k].perm \in DOMAIN PermCycle
                       => Data'[k].perm = PermCycle[Data[k].perm]
                 /\ diskOK => UnmarshalUsers(usersFile') =
                                [err |-> FALSE, map |-> Data', nil |-> FALSE]
        /\ \A p \in DOMAIN PermCycle :
              /\ CyclePerm(CyclePerm(CyclePerm(CyclePerm(p)))) = p
              /\ PermCycle[PermCycle[PermCycle[PermCycle[p]]]] = p ]_vars

\* The host, admin at the start, after three cycles on its own entry.
C17_Witness ==
    /\ Data[UserKey(Key1)] = User("host (admin)", "write")
    /\ usersFile = MarshalUsers(Data)
    /\ conn[FirstConn].pc = "tui"

C21_ConfigRestored ==
    [][ (main.pc = "listen" /\ main'.pc = "serving"
            /\ confFile.kind = "object" /\ confEvents = 0 /\ watcher.pc = "idle")
            => Config' = UnmarshalConfig(confFile').cfg ]_vars


(* --------------------------- the command line ------------------------- *)

\* C22: once main has run, `gitport start <port>` has called server.Start
\* with that port, `gitport init` has called server.Init, and no command
\* line has made main index os.Args past its end.
C22_CliDispatch ==
    cli.out \notin {"none", "pending"} =>
        /\ (Len(cli.args) = 3 /\ cli.args[2] = "start") =>
                (cli.out = "Start" /\ cli.port = cli.args[3])
        /\ cli.args = << "gitport", "init" >> => cli.out = "Init"
        /\ cli.out # "panic"

(* --------------------------- first-time setup ------------------------- *)

\* C23: in a Git working directory with no server state (no bare repository
\* and no .gitport), Init clones the bare repository and goes on to the
\* configuration (unless the clone itself fails), while Start in the same
\* state returns without serving.
C23_FirstTimeSetup ==
    [][ (main.pc = "initBareRepo" /\ main'.pc # "initBareRepo"
            /\ setup.configDir /\ ~setup.bare /\ ~setup.gitport)
            => IF cli.out = "Init"
               THEN \/ setup'.bare /\ main'.pc = "initConfig"
                    \/ main'.err = "failed to clone bare repository"
               ELSE main'.pc = "exited" ]_vars

(* ------------------------------ shutdown ------------------------------ *)

\* C24: when Start returns after a signal or a failure of ListenAndServe, the
\* SSH server's Shutdown has been invoked before CloseFileWatcher is called;
\* once the watcher is closed nothing is watched, no event is waiting, no
\* reload begins and the only step left to the idle watchFiles loop is to
\* return.
C24_WatcherTeardown ==
    [][ /\ main.pc = "serving" => main'.pc \in {"serving", "shutdown"}
        /\ main.pc = "shutdown" => main'.pc \in {"shutdown", "closeWatcher"}
        /\ (main.pc = "closeWatcher" /\ main' # main)
              => /\ WatcherClosed'
                 /\ main.err # "could not create server" => main.shutdown
        /\ WatcherClosed
              => /\ main' = main
                 /\ watched' = {} /\ events' = 0 /\ confEvents' = 0
                 /\ watcher.pc \in {"idle", "returned"}
                       => watcher'.pc \in {watcher.pc, "returned"} ]_vars

C24_Witness ==
    /\ WatcherClosed
    /\ main.shutdown
    /\ watcher.pc = "returned"
    /\ conn[FirstConn].pc = "runlock"

(* ------------------------ the registry's lock ------------------------- *)

\* C25: a persisted mutation is atomic.  From the moment a call of
\* AuthHandler has put its identity into the registry until it has written
\* users.json (or has failed to), no step of another goroutine, handler or
\* reload, changes the registry.
C25_MutationAtomicity ==
    [][ (\E c \in Conns : conn[c].pc \in {"saveRLock", "suspend", "create", "encode"})
            => Data' = Data ]_vars

\* C26: a reload is linearized with the upserts.  With no writer of
\* users.json but the server itself, the map a reload installs holds every
\* identity whose registration had completed, saved and returned, before the
\* installation.
C26_ReloadLinearized ==
    [][ (watcher.pc = "install" /\ watcher'.pc = "idle")
            => \A c \in Conns :
                  (Registered(c) /\ conn[c].userKey \in DOMAIN Data)
                      => conn[c].userKey \in DOMAIN Data' ]_vars

\* C27: every read of the registry holds its lock.  The existence check of
\* AuthHandler therefore never runs while another goroutine holds the write
\* lock, and the process never stops on a concurrent map read and map write.
C27_LockDiscipline ==
    [][ /\ ~crashed'
        /\ \A c \in Conns :
              (conn[c].pc = "idle" /\ conn'[c].pc # "idle") => dataMu.writer = {} ]_vars

(* ----------------------------- the watcher ----------------------------- *)

\* C28: the server's own writes are not watched.  Whenever a save truncates
\* or writes users.json, the path is not in the watch set and no write event
\* is queued for it, also when two saves overlap.
C28_SelfWriteSuppression ==
    [][ (\E c \in Conns : /\ conn[c].pc \in {"create", "encode"}
                          /\ conn'[c].pc # conn[c].pc)
            => (Users \notin watched /\ events' = events) ]_vars

\* C29: the watch recovers.  Once users.json, removed or renamed away, is in
\* place again, the path is eventually watched again (unless the file is
\* removed once more first).
C29_WatchRecovery ==
    (usersFile.kind # "absent" /\ Users \notin watched)
        ~> (Users \in watched \/ usersFile.kind = "absent")

\* C30: config.json is reconciled.  A reload whose file parses installs what
\* it decoded, both fields together (a member the file lacks becomes the zero
\* value), so that with no further change waiting logger.Config equals the
\* file; a reload whose file cannot be opened or decoded leaves logger.Config
\* as it was, and watchFiles goes back to its select.
C30_ConfigReconciliation ==
    [][ /\ (watcher.pc = "reloadConfig" /\ watcher' # watcher)
              => LET r == UnmarshalConfig(confFile)
                 IN  IF confFile.kind = "absent" \/ r.err
                     THEN watcher'.pc = "idle" /\ Config' = Config /\ ~crashed'
                     ELSE watcher'.pc = "setConfig" /\ watcher'.newConfig = r.cfg
        /\ (watcher.pc = "setConfig" /\ watcher'.pc = "idle")
              => /\ Config' = watcher.newConfig
                 /\ (confEvents = 0 /\ confFile.kind # "absent")
                       => Config' = UnmarshalConfig(confFile).cfg ]_vars

\* The operator's file with no default_perm member has been reloaded into a
\* server that gave "read" or "write": the permission is now the zero value.
C30_Witness ==
    /\ Config = ConfigData(TRUE, "")
    /\ confFile = ObjectFile(<< [key |-> "public", val |-> "true"] >>)
    /\ watcher.pc = "idle"
    /\ confEvents = 0

(* ------------------------------ bootstrap ------------------------------ *)

\* C31: the bootstrap does nothing when an admin exists.  If the registry
\* InitUsers loaded holds an identity with permission "admin", EnsureHostAdmin
\* returns nil and startup goes on to the watcher: the registry and users.json
\* are as they were, and no key of the host has been taken up.
C31_BootstrapNoOp ==
    [][ (main.pc = "ensureAdmin" /\ main' # main /\ HasAdmin(Data))
            => /\ main' = MainAt("initWatcher")
               /\ Data' = Data
               /\ usersFile' = usersFile ]_vars

\* Startup has passed the bootstrap with the first host's key as the only
\* admin while the key file that can be read holds another key.
C31_Witness ==
    /\ main.pc = "initWatcher"
    /\ Data = MapSet(EmptyMap, UserKey(Key1), User("host (admin)", "admin"))
    /\ usersFile = MarshalUsers(Data)
    /\ hostKeys = HostKeys(TRUE, << Unreadable, PubFileOf(Key2), Unreadable >>)

(* --------------------------- the admin console ------------------------ *)

\* C32: a console command changes one field.  The SetConfig of togglePublic
\* leaves the default permission logger.Config holds as it is, and that of
\* cycleDefaultPerm leaves the public flag as it is, whatever a reload or
\* another session did since the command began.
C32_OneFieldEach ==
    [][ \A c \in Conns :
          (console[c].pc = "setConfig" /\ console'[c].pc # "setConfig")
              => /\ console[c].cmd = "togglePublic"
                      => Config'.DefaultPerm = Config.DefaultPerm
                 /\ console[c].cmd = "cycleDefaultPerm"
                      => Config'.Public = Config.Public ]_vars


(* ------------------- a users.json that holds null --------------------- *)

\* What startup may find in users.json when an operator has emptied it by
\* hand: nothing, the host as admin, or the JSON literal null.
NullBootFiles ==
    { AbsentFile,
      MarshalUsers(MapSet(EmptyMap, UserKey(Key1), User("host (admin)", "admin"))),
      NullFile }

InitNull ==
    /\ Data = EmptyMap
    /\ dataMu = [writer |-> {}, readers |-> {}]
    /\ Config = ConfigData(TRUE, "read")
    /\ usersFile \in NullBootFiles
    /\ watched = {}
    /\ events = 0
    /\ diskOK = TRUE
    /\ crashed = FALSE
    /\ conn = [c \in Conns |-> IdleConn]
    /\ watcher = IdleWatcher
    /\ main = MainAt("initUsers")
    /\ hostKeys \in BootHostKeys
    /\ cli = NoCommand
    /\ setup = Initialized
    /\ rewatch = NoRewatch
    /\ dataNil = FALSE
    /\ confFile = MarshalConfig(Config)
    /\ confEvents = 0
    /\ console = [c \in Conns |-> IdleConsole]

\* Startup, then a guest registering while an operator writes null or the
\* host's entry into users.json.
NextNull ==
    \/ initGitPortServer_InitUsers
    \/ EnsureHostAdmin_Find
    \/ EnsureHostAdmin_Write
    \/ EnsureHostAdmin_Save
    \/ InitFileWatcher
    \/ startGitPortServer
    \/ CloseFileWatcher
    \/ AuthHandler_Lookup(FirstConn, Key2, "bob", "10.0.0.5:50412")
    \/ RegistrationStep(FirstConn)
    \/ Close(FirstConn)
    \/ ExternalEdit(NullFile)
    \/ ExternalEdit(MarshalUsers(MapSet(EmptyMap, UserKey(Key1),
                                       User("host (admin)", "admin"))))
    \/ WatcherStep

SpecNull == InitNull /\ [][NextNull]_vars

\* C33: whatever users.json held at startup and at each reload, as long as it
\* parsed as JSON, the registry is a map that takes an insert: neither the
\* bootstrap of the host admin nor an auto-registration ends the process with
\* an assignment to the nil map.
C33_RegistryUsable == ~(dataNil /\ crashed)

\* C34: a reload that finds users.json missing or unparsable ends there: the
\* watcher goes back to waiting without taking the registry lock, and the
\* registry is what it was.
C34_FailedReloadKeepsRegistry ==
    [][ (watcher.pc = "open" /\ watcher'.pc # "open" /\ UnmarshalUsers(usersFile).err)
            => /\ watcher' = IdleWatcher
               /\ Data' = Data ]_vars

\* C35: when the insert of AuthHandler takes effect for a key that is in the
\* registry by then, the entry of that key keeps its name and its permission.
C35_NoOverwrite ==
    [][ \A c \in Conns :
          (/\ conn[c].pc = "write"
           /\ conn'[c].pc = "saveRLock"
           /\ conn[c].userKey \in DOMAIN Data)
              => Data'[conn[c].userKey] = Data[conn[c].userKey] ]_vars

\* The connection is inside SaveUsers, between RLock and the deferred RUnlock.
Saving(c) == conn[c].pc \in {"suspend", "create", "encode", "resume", "runlock"}

\* C36: while two SaveUsers calls overlap the registry does not change, and the
\* document either of them encodes is the encoding of that one registry: what
\* is in users.json when both have written is a single snapshot.
C36_OneSnapshot ==
    [][ (\E c, d \in Conns : c # d /\ Saving(c) /\ Saving(d))
            => /\ Data' = Data
               /\ \A c \in Conns :
                     (conn[c].pc = "encode" /\ conn'[c].pc = "resume")
                         => usersFile' = MarshalUsers(Data) ]_vars

\* Two saves have overlapped and both have written: users.json holds the two
\* identities that the registry holds.
C36_Witness ==
    /\ \A c \in Conns : conn[c].pc = "runlock" /\ ~conn[c].err
    /\ Cardinality(DOMAIN Data) = 2
    /\ usersFile = MarshalUsers(Data)

\* C37: a connection that AuthHandler has accepted presents a key whose
\* identity is in users.json; in particular a key whose registration failed on
\* the write of the file is not accepted on its next attempt while the file
\* still lacks it.
C37_NoAdmissionWithoutPersistence ==
    \A c \in Conns :
        (conn[c].pc = "done" /\ conn[c].result)
            => conn[c].userKey \in DOMAIN UnmarshalUsers(usersFile).map

(* -------------- a registration while config.json is reloaded ---------- *)

\* The configurations GlobalConfig holds in SpecSnap: the one the server
\* started with and the one the operator writes into config.json.
SnapConfigs == {ConfigData(TRUE, "read"), ConfigData(FALSE, "admin")}

InitSnap == InitWith({EmptyMap}, {ConfigData(TRUE, "read")})

\* A guest registers on a public server while an operator closes the server
\* and raises default_perm in one write of config.json.
NextSnap ==
    \/ AuthHandler_Lookup(FirstConn, Key2, "bob", "10.0.0.5:50412")
    \/ RegistrationStep(FirstConn)
    \/ Close(FirstConn)
    \/ ExternalConfEdit(MarshalConfig(ConfigData(FALSE, "admin")))
    \/ ConfigWatcherStep

SpecSnap == InitSnap /\ [][NextSnap]_vars

\* GlobalConfig holds no other configuration than these two.
SnapConfigsHeld == Config \in SnapConfigs

\* C38: the permission of every auto-registered guest is the default_perm of
\* a configuration that GlobalConfig has held with public = true.
C38_ConsistentSnapshot ==
    \A k \in DOMAIN Data : ConfigData(TRUE, Data[k].perm) \in SnapConfigs

(* ------------- console commands on unrecognised permissions ----------- *)

\* auth.AddUser(key, name, perm): the identity stored under key (the source is
\* not part of the repository's snapshot; the registry's upsert of the
\* specification, the save follows).
AddUser(m, key, name, perm) == MapSet(m, key, User(name, perm))

\* createUser(key, name, perm) from the console's form: a perm that is none of
\* the four becomes "none"; auth.AddUser stores the identity and saves the
\* registry like every other write.
createUser(c, key, name, perm) ==
    /\ ~crashed
    /\ conn[c].pc = "tui"
    /\ console[c].pc = "menu"
    /\ dataMu = [writer |-> {}, readers |-> {}]
    /\ Data' = AddUser(Data, key, name,
                       IF perm # "none" /\ perm # "read" /\ perm # "write"
                          /\ perm # "admin"
                       THEN "none" ELSE perm)
    /\ IF diskOK
       THEN /\ usersFile' = MarshalUsers(Data')
            /\ watched' = watched \cup {Users}
       ELSE /\ UNCHANGED usersFile
            /\ watched' = IF usersFile.kind = "absent"
                          THEN watched \ {Users}
                          ELSE watched \cup {Users}
    /\ UNCHANGED << dataMu, Config, events, diskOK, crashed, conn, watcher,
                    startupVars, configVars >>

\* The host in the console of a server whose config.json and users.json an
\* operator wrote by hand: default_perm and a collaborator's perm are any
\* string, one of the four or not.
InitPerm ==
    /\ Data \in { MapSet(MapSet(EmptyMap, UserKey(Key1), User("host (admin)", "admin")),
                         UserKey(Key2), User("carol", p)) : p \in PermStrings }
    /\ dataMu = [writer |-> {}, readers |-> {}]
    /\ Config \in [Public : BOOLEAN, DefaultPerm : PermStrings]
    /\ usersFile = MarshalUsers(Data)
    /\ watched = {Users, Conf}
    /\ events = 0
    /\ diskOK = TRUE
    /\ crashed = FALSE
    /\ conn = [c \in Conns |-> IF c = FirstConn THEN AdminSession ELSE IdleConn]
    /\ watcher = IdleWatcher
    /\ main = Serving
    /\ hostKeys = NoHostKeys
    /\ cli = NoCommand
    /\ setup = Initialized
    /\ rewatch = NoRewatch
    /\ dataNil = FALSE
    /\ confFile = MarshalConfig(Config)
    /\ confEvents = 0
    /\ console = [c \in Conns |-> IdleConsole]

\* The admin uses every command of the console that stores a permission or a
\* configuration.
NextPerm ==
    \/ togglePublic_GetPublic(FirstConn)
    \/ cycleDefaultPerm_GetDefaultPerm(FirstConn)
    \/ ConsoleInternal(FirstConn)
    \/ cycleUserPerm(FirstConn, UserKey(Key2))
    \/ \E perm \in PermStrings : createUser(FirstConn, UserKey(Key2), "dave", perm)

SpecPerm == InitPerm /\ [][NextPerm]_vars

\* C39: what a console command stores is one of the four permissions: the
\* entry that createUser or cycleUserPerm writes into the registry, the
\* default_perm that a command installs with SetConfig and the one it encodes
\* into config.json.
C39_ConsoleWritesValidPerms ==
    [][ /\ \A k \in DOMAIN Data' :
              (k \notin DOMAIN Data \/ Data'[k] # Data[k])
                  => \E i \in 1..Len(perms) : Data'[k].perm = perms[i]
        /\ \A c \in Conns :
              (console[c].pc = "setConfig" /\ console'[c].pc = "suspend")
                  => \E i \in 1..Len(perms) : Config'.DefaultPerm = perms[i] ]_vars

(* ------------------ users.json created after startup ------------------ *)

\* InitFileWatcher found no users.json: only config.json is watched.  The
\* server is public.
InitCreate ==
    /\ InitWith({EmptyMap}, {ConfigData(TRUE, "read")})
    /\ usersFile = AbsentFile

\* Two guests register, each with a key of its own and possibly at the same
\* time, so that their saves overlap; an operator edits the file once it is
\* there; the watcher reloads.
NextCreate ==
    \/ \E c \in Conns :
          \/ AuthHandler_Lookup(c, IF c = FirstConn THEN Key1 ELSE Key2, "bob",
                                "10.0.0.5:50412")
          \/ RegistrationStep(c)
          \/ Close(c)
    \/ ExternalEdit(MarshalUsers(MapSet(EmptyMap, UserKey(Key1),
                                       User("host (admin)", "admin"))))
    \/ WatcherStep

\* A goroutine that can run does run: a handler goes on to its return, the
\* watcher takes the events queued for it.
FairCreate ==
    /\ \A c \in Conns : WF_vars(RegistrationStep(c) \/ Close(c))
    /\ WF_vars(WatcherStep)

SpecCreate == InitCreate /\ [][NextCreate]_vars /\ FairCreate

\* C40: whenever users.json exists and no save is under way the path is in the
\* watch set, also when the file was created by a save after InitFileWatcher
\* had found none; while saves overlap the path comes back into the watch set;
\* and a write by another process to the watched file is queued for the
\* watcher, which goes on to reload the registry.
C40_CreatedFileWatched ==
    /\ [](crashed \/ ((usersFile.kind # "absent" /\ \A c \in Conns : ~Saving(c))
                        => Users \in watched))
    /\ [](usersFile.kind # "absent" => <>(crashed \/ Users \in watched))
    /\ [][ (usersFile' # usersFile /\ conn' = conn /\ Users \in watched)
                => events' > 0 ]_vars
    /\ [](events > 0 => <>(crashed \/ watcher.pc = "open"))

\* InitFileWatcher found no users.json; a save has created it, the path is now
\* watched, another process has written the file and the watcher is reloading.
C40_Witness ==
    /\ usersFile = MarshalUsers(MapSet(EmptyMap, UserKey(Key1),
                                       User("host (admin)", "admin")))
    /\ Data # UnmarshalUsers(usersFile).map
    /\ Users \in watched
    /\ \A c \in Conns : ~Saving(c)
    /\ watcher.pc = "open"

====
